---------------------------- MODULE Spec2Model ----------------------------
(***************************************************************************)
(* A model of the Bluesky toolkit of aeyu.io: the post classifier, the     *)
(* profile filter, the cursor-driven collectors and the reply extraction.  *)
(*                                                                         *)
(* Strings that the code splits on '/' are kept as their sequence of       *)
(* '/'-free segments: the string "at://did/coll/key" is                    *)
(* <<"at:", "", "did", "coll", "key">>, so that String.split('/') is the   *)
(* identity on the representation and indexing is what the code indexes.   *)
(* The empty sequence stands for an absent (undefined) string.             *)
(***************************************************************************)
EXTENDS Integers, Sequences, FiniteSets, TLC

VARIABLES
    feedItems,      \* the feed page handed to the classifier / filter
    withContainer,  \* whether detectPostType was given the feed item
    types,          \* detectPostType of every item of feedItems
    filters,        \* the three check boxes of the profile form
    kept,           \* filterFeedItemsByType(feedItems, filters)
    clsPc,          \* "start" | "detected" | "filtered"
    impl,           \* the collector that runs (the name of its function)
    limit,          \* the requested overall limit
    batchSize,      \* options.batchSize / batchSize of the search callers
    members,        \* starter pack: listItems.length (-1 before it is resolved)
    memberIdx,      \* starter pack: members the for-loop has gone through
    allData,        \* allData.length / allPosts.length / allResults.length
    filteredData,   \* generic filtered collector: filteredData.length
    attempts,       \* generic filtered collector: attempts
    cursor,         \* the loop's cursor variable
    requestCount,   \* listing requests issued so far
    lastReq,        \* limit and cursor parameter of the last listing request
    lastResp,       \* the upstream's answer to it
    colPc,          \* "resolve" | "loop" | "returned" | "threw"
    result,         \* length of the returned data / posts
    originalPost,   \* thread tool: whether fetchOriginalPost returned a post
    thread,         \* thread tool: threadData.thread of getPostThread
    replies,        \* thread tool: extractReplies(threadData.thread)
    output,         \* thread tool: the object handed to displayOutput
    thrPc,          \* "start" | "original" | "displayed" | "error"
    anoCall,        \* anonymizer: the function that is called
    anoItems,       \* anonymizer: the posts / items it is given
    anoOptions,     \* anonymizer: the options of anonymizePost(s)
    anoOut,         \* anonymizer: the records it returns
    anoPc,          \* "start" | "done"
    quoImpl,        \* quote discovery: the module that runs
    quoKey,         \* quote discovery: the record key of the target post
    quoRequests,    \* quote discovery: the requests issued, in order
    quoResponses,   \* quote discovery: how each request was answered
    quoFailed,      \* quote discovery: whether the getQuotes request failed
    quoHits,        \* quote discovery: data.posts of the search response
    quoResult,      \* quote discovery: the posts returned to the caller
    quoPc,          \* "start" | "search" | "done"
    uriHandle,      \* buildPostUri: its handle argument, as its characters
    uriPostId,      \* buildPostUri: its postId argument
    uriResolveDid,  \* buildPostUri: its resolveDid argument
    uriRequests,    \* buildPostUri: the handles resolveHandle was asked for
    uriResponse,    \* buildPostUri: "none" | "ok" | "notOk" | "error"
    uriResult,      \* buildPostUri: <<>>, or the URI it returned
    uriPc,          \* "start" | "done"
    authToken,      \* bsky-core.js: authToken, <<>> for null
    userProfile,    \* bsky-core.js: userProfile, <<>> for null
    authCalls,      \* authenticateUser: where each of its calls is
    loggedOut,      \* a logout has returned and no later call has succeeded
    opPage,         \* the page whose form handlers run
    ops,            \* the user-triggered operations of the page
    paneOutput,     \* #output: <<>>, or what displayOutput wrote last
    paneError,      \* #error: whether it is displayed, and who wrote it
    disabledButtons,\* the buttons showLoading has disabled
    overlapped,     \* two operations have been in flight at the same time
    fltImpl,        \* the filtering collector that runs
    fltLimit,       \* its limit
    fltFilters,     \* the settings its predicate is built from
    fltFetched,     \* the items of all pages fetched so far, in order
    fltAllData,     \* allData / allPosts
    fltRequestCount,\* requests made
    fltResult,      \* the returned data
    fltPc           \* "loop" | "returned" | "threw"

clsVars == <<feedItems, withContainer, types, filters, kept, clsPc>>

colVars == <<impl, limit, batchSize, members, memberIdx, allData, filteredData,
             attempts, cursor, requestCount, lastReq, lastResp, colPc, result>>

thrVars == <<originalPost, thread, replies, output, thrPc>>

anoVars == <<anoCall, anoItems, anoOptions, anoOut, anoPc>>

quoVars == <<quoImpl, quoKey, quoRequests, quoResponses, quoFailed, quoHits, quoResult, quoPc>>

\* The variables of the entry points modelled further down.
uriVars == <<uriHandle, uriPostId, uriResolveDid, uriRequests, uriResponse, uriResult, uriPc>>

authVars == <<authToken, userProfile, authCalls, loggedOut>>

opVars == <<opPage, ops, paneOutput, paneError, disabledButtons, overlapped>>

fltVars == <<fltImpl, fltLimit, fltFilters, fltFetched, fltAllData, fltRequestCount,
             fltResult, fltPc>>

extVars == <<uriVars, authVars, opVars, fltVars>>

\* All but those.
coreVars == <<clsVars, colVars, thrVars, anoVars, quoVars>>

vars == <<coreVars, extVars>>

(***************************************************************************)
(* Values                                                                  *)
(***************************************************************************)

\* JavaScript's undefined for a string-valued field.
Undefined == "<undefined>"

\* An absent URI string.
NoUri == <<>>

ReasonRepost == "app.bsky.feed.defs#reasonRepost"
ReasonPin == "app.bsky.feed.defs#reasonPin"
NoReason == "<none>"

EmbedRecord == "app.bsky.embed.record"
EmbedRecordWithMedia == "app.bsky.embed.recordWithMedia"
EmbedImages == "app.bsky.embed.images"
EmbedExternal == "app.bsky.embed.external"
NoEmbed == "<none>"

PostTypes == {"original", "reply", "thread", "repost", "quote"}

DidA == "did:plc:alice"
DidB == "did:plc:bob"

\* at://<identity>/app.bsky.feed.post/<key>
PostUriOf(identity) == <<"at:", "", identity, "app.bsky.feed.post", "3k">>

\* Reply-parent URIs the upstream may deliver: well formed ones, one with
\* an empty identity, and malformed ones with too few segments.
ParentUris ==
    { PostUriOf(DidA), PostUriOf(DidB), PostUriOf(""),
      <<"at:", DidA>>, <<DidA>>, <<"">>, NoUri }

AuthorDids == {Undefined, "", DidA, DidB}

Reasons == {NoReason, ReasonRepost, ReasonPin}

EmbedTypes == {NoEmbed, EmbedRecord, EmbedRecordWithMedia, EmbedImages, EmbedExternal}

\* post.record.reply is either absent (hasReply = FALSE, no parent) or an
\* object whose parent.uri is any of ParentUris.
Posts ==
    { [embedType |-> e, hasReply |-> FALSE, parentURI |-> NoUri, authorDID |-> a] :
        e \in EmbedTypes, a \in AuthorDids }
    \cup
    { [embedType |-> e, hasReply |-> TRUE, parentURI |-> p, authorDID |-> a] :
        e \in EmbedTypes, p \in ParentUris, a \in AuthorDids }

RawItems == { [reason |-> rs, post |-> p] : rs \in Reasons, p \in Posts }

\* --------------------------------------------------------------------------
\* JavaScript helpers
\* --------------------------------------------------------------------------

\* Truthiness of a string-valued field: undefined and "" are falsy.
TruthyStr(s) == s # Undefined /\ s # ""

\* Truthiness of a URI string kept as its segments: undefined and "" are falsy.
TruthyUri(u) == u # NoUri /\ u # <<"">>

\* uri.split('/')[i], 0-based as in the code; undefined past the end.
SplitAt(u, i) == IF i + 1 <= Len(u) THEN u[i + 1] ELSE Undefined

\* --------------------------------------------------------------------------
\* bsky-core.js: detectPostType(post, feedItem)
\* feedItem is [present |-> BOOLEAN, reason |-> Reasons]; present = FALSE is
\* the default argument null.
\* --------------------------------------------------------------------------

detectPostType_QuoteFirst(post, feedItem) ==
    IF post.embedType \in {EmbedRecord, EmbedRecordWithMedia} THEN "quote"
    ELSE IF feedItem.present /\ feedItem.reason = ReasonRepost THEN "repost"
    ELSE IF post.hasReply THEN
        IF /\ TruthyStr(post.authorDID)
           /\ TruthyUri(post.parentURI)
           /\ post.authorDID = SplitAt(post.parentURI, 2)
        THEN "thread" ELSE "reply"
    ELSE "original"

detectPostType_WrongSegment(post, feedItem) ==
    IF feedItem.present /\ feedItem.reason = ReasonRepost THEN "repost"
    ELSE IF post.embedType \in {EmbedRecord, EmbedRecordWithMedia} THEN "quote"
    ELSE IF post.hasReply THEN
        IF /\ TruthyStr(post.authorDID)
           /\ TruthyUri(post.parentURI)
           /\ post.authorDID = SplitAt(post.parentURI, 1)
        THEN "thread" ELSE "reply"
    ELSE "original"

detectPostType(post, feedItem) ==
    IF feedItem.present /\ feedItem.reason # NoReason /\ feedItem.reason = ReasonRepost
    THEN "repost"
    ELSE IF post.embedType # NoEmbed
            /\ (post.embedType = EmbedRecord \/ post.embedType = EmbedRecordWithMedia)
    THEN "quote"
    ELSE IF post.hasReply THEN
        IF /\ TruthyStr(post.authorDID)
           /\ TruthyUri(post.parentURI)
           /\ post.authorDID = SplitAt(post.parentURI, 2)
        THEN "thread" ELSE "reply"
    ELSE "original"

\* --------------------------------------------------------------------------
\* bsky-feeds.js: filterFeedItemsByType, the callback's verdict on one item
\* --------------------------------------------------------------------------

filterKeeps_RepliesKept(item, f) ==
    LET isRepost == item.reason = ReasonRepost
        isQuotePost == ~isRepost /\ item.post.embedType \in {EmbedRecord, EmbedRecordWithMedia}
        isOriginalPost == ~isRepost /\ ~isQuotePost
    IN  \/ isRepost /\ f.includeReposts
        \/ isQuotePost /\ f.includeQuotes
        \/ isOriginalPost /\ f.includePosts

filterKeeps(item, f) ==
    LET isRepost == item.reason = ReasonRepost
        isQuotePost ==
            /\ ~isRepost
            /\ (item.post.embedType = EmbedRecord \/ item.post.embedType = EmbedRecordWithMedia)
        hasReplyField == item.post.hasReply
        authorDID == item.post.authorDID
        parentURI == item.post.parentURI
        isSelfReply ==
            /\ hasReplyField
            /\ TruthyStr(authorDID)
            /\ TruthyUri(parentURI)
            /\ authorDID = SplitAt(parentURI, 2)
        isReply == hasReplyField /\ ~isSelfReply
        isOriginalPost == ~isRepost /\ ~isQuotePost /\ ~isReply
    IN  \/ isRepost /\ f.includeReposts
        \/ isQuotePost /\ f.includeQuotes
        \/ isOriginalPost /\ f.includePosts

filterFeedItemsByType(items, f) ==
    LET Keep(item) == filterKeeps(item, f)
    IN  SelectSeq(items, Keep)

\* --------------------------------------------------------------------------
\* Cursor-driven collectors: values
\* --------------------------------------------------------------------------

\* JavaScript's null for a string-valued field.
Null == "<null>"

\* A request whose URL has no cursor parameter.
NoParam == "<no cursor parameter>"

\* Cursors of the upstream: absent, the empty string, or a fresh token.
RespCursors == {Undefined, "", "c1", "c2"}

\* Truthiness of a cursor variable: null, undefined and "" are falsy.
TruthyCursor(c) == c # Null /\ c # Undefined /\ c # ""

\* data[cursorKey] || null
OrNull(c) == IF TruthyCursor(c) THEN c ELSE Null

\* The text URLSearchParams stores for a value given in its init record.
ToUSVString(v) ==
    IF v = Undefined THEN "undefined" ELSE IF v = Null THEN "null" ELSE v

Min(a, b) == IF a <= b THEN a ELSE b

Max(a, b) == IF a >= b THEN a ELSE b

\* Math.ceil(a / b) for a >= 0, b > 0
Ceil(a, b) == (a + b - 1) \div b

\* array.slice(0, limit).length for an array of n items
Slice_Missing(n, lim) == n

Slice(n, lim) == Min(n, lim)

\* The result-count selectors of the pages.
FeedUiLimits == {50, 100, 250, 500}

SearchUiLimits == {25, 50, 100, 250, 500, 1000}

\* Bounds of the model.
MaxRequests == 12

ShortPage == 1

Excess == 1

MaxMembers == 3

\* Sizes of the page the upstream answers a request for r items with: empty,
\* short, full, or more than asked for.
PageSizes(r) == {0, Min(ShortPage, r), r, r + Excess}

FailedResponse == [ok |-> FALSE, n |-> 0, cursor |-> Undefined]

\* What the upstream may answer: a non-2xx status or transport error, or a
\* page of any of the sizes with any cursor.
Responses(r) ==
    {FailedResponse} \cup [ok : {TRUE}, n : PageSizes(r), cursor : RespCursors]

\* How many of n fetched items the caller's predicate accepts.
Matching(n) == {0, Min(1, n), n}

NoRequest == [limit |-> 0, cursor |-> NoParam]

\* An optional field of the upstream's thread view is kept as the sequence
\* of its zero or one values: post |-> <<>> is a reply without a post (a
\* blocked or not-found view), replies |-> <<>> a node without a replies
\* field, replies |-> <<list>> a node whose replies field is the list.
NoThread == [post |-> <<>>, replies |-> <<>>]

NoOutput == [root |-> "<none>", replies |-> <<>>, totalReplies |-> 0]

ThrIdle ==
    /\ originalPost = FALSE
    /\ thread = NoThread
    /\ replies = <<>>
    /\ output = NoOutput
    /\ thrPc = "idle"

AnoIdle ==
    /\ anoCall = "none"
    /\ anoItems = <<>>
    /\ anoOptions = "none"
    /\ anoOut = <<>>
    /\ anoPc = "idle"

QuoIdle ==
    /\ quoImpl = "none"
    /\ quoKey = <<>>
    /\ quoRequests = <<>>
    /\ quoResponses = <<>>
    /\ quoFailed = FALSE
    /\ quoHits = <<>>
    /\ quoResult = <<>>
    /\ quoPc = "idle"

UriIdle ==
    /\ uriHandle = <<>>
    /\ uriPostId = <<>>
    /\ uriResolveDid = FALSE
    /\ uriRequests = <<>>
    /\ uriResponse = "none"
    /\ uriResult = <<>>
    /\ uriPc = "idle"

AuthIdle ==
    /\ authToken = <<>>
    /\ userProfile = <<>>
    /\ authCalls = <<>>
    /\ loggedOut = FALSE

OpIdle ==
    /\ opPage = "none"
    /\ ops = <<>>
    /\ paneOutput = <<>>
    /\ paneError = [shown |-> FALSE, owner |-> 0]
    /\ disabledButtons = {}
    /\ overlapped = FALSE

FltIdle ==
    /\ fltImpl = "none"
    /\ fltLimit = 0
    /\ fltFilters = [includePosts |-> TRUE, includeReposts |-> FALSE, includeQuotes |-> FALSE]
    /\ fltFetched = <<>>
    /\ fltAllData = <<>>
    /\ fltRequestCount = 0
    /\ fltResult = <<>>
    /\ fltPc = "idle"

ExtIdle == UriIdle /\ AuthIdle /\ OpIdle /\ FltIdle

ColIdle ==
    /\ impl = "none"
    /\ limit = 0
    /\ batchSize = 0
    /\ members = 0
    /\ memberIdx = 0
    /\ allData = 0
    /\ filteredData = 0
    /\ attempts = 0
    /\ cursor = Null
    /\ requestCount = 0
    /\ lastReq = NoRequest
    /\ lastResp = FailedResponse
    /\ colPc = "idle"
    /\ result = 0

\* --------------------------------------------------------------------------
\* The classifier and the profile filter applied to one feed page
\* --------------------------------------------------------------------------

MaxFeedLen == 5

OriginalItem(k) ==
    [reason |-> NoReason,
     post |-> [embedType |-> IF k = 1 THEN NoEmbed ELSE EmbedImages, hasReply |-> FALSE,
               parentURI |-> NoUri, authorDID |-> DidA]]

RepostItem ==
    [reason |-> ReasonRepost,
     post |-> [embedType |-> NoEmbed, hasReply |-> FALSE,
               parentURI |-> NoUri, authorDID |-> DidB]]

QuoteItem ==
    [reason |-> NoReason,
     post |-> [embedType |-> EmbedRecord, hasReply |-> FALSE,
               parentURI |-> NoUri, authorDID |-> DidA]]

ReplyToOtherItem ==
    [reason |-> NoReason,
     post |-> [embedType |-> NoEmbed, hasReply |-> TRUE,
               parentURI |-> PostUriOf(DidB), authorDID |-> DidA]]

SelfReplyItem ==
    [reason |-> NoReason,
     post |-> [embedType |-> NoEmbed, hasReply |-> TRUE,
               parentURI |-> PostUriOf(DidA), authorDID |-> DidA]]

SampleItems == {OriginalItem(1), OriginalItem(2), RepostItem, QuoteItem, ReplyToOtherItem}

SeqsUpTo(S, n) == UNION { [1..k -> S] : k \in 0..n }

\* Every single raw item (all field combinations), and every page of up to
\* MaxFeedLen items drawn from the sample kinds.
Feeds == { <<i>> : i \in RawItems \cup {SelfReplyItem} } \cup SeqsUpTo(SampleItems, MaxFeedLen)

FilterSettings == [includePosts : BOOLEAN, includeReposts : BOOLEAN, includeQuotes : BOOLEAN]

ClassifyInit ==
    /\ feedItems \in Feeds
    /\ withContainer = FALSE
    /\ types = <<>>
    /\ filters = [includePosts |-> TRUE, includeReposts |-> FALSE, includeQuotes |-> FALSE]
    /\ kept = <<>>
    /\ clsPc = "start"
    /\ ColIdle
    /\ ThrIdle
    /\ AnoIdle
    /\ QuoIdle
    /\ ExtIdle

\* detectPostType on every item of the page, with the feed item as context
\* (feed callers) or without it (search / thread callers).
DetectPostType ==
    /\ clsPc = "start"
    /\ \E c \in BOOLEAN :
         /\ withContainer' = c
         /\ types' = [k \in 1..Len(feedItems) |->
                        detectPostType(feedItems[k].post,
                                       [present |-> c, reason |-> feedItems[k].reason])]
    /\ clsPc' = "detected"
    /\ UNCHANGED <<feedItems, filters, kept>>
    /\ UNCHANGED <<colVars, thrVars, anoVars, quoVars, extVars>>

\* processProfileFeed's filtering of one page under the form's check boxes.
FilterFeedItemsByType ==
    /\ clsPc = "detected"
    /\ withContainer
    /\ \E f \in FilterSettings :
         /\ filters' = f
         /\ kept' = filterFeedItemsByType(feedItems, f)
    /\ clsPc' = "filtered"
    /\ UNCHANGED <<feedItems, withContainer, types>>
    /\ UNCHANGED <<colVars, thrVars, anoVars, quoVars, extVars>>

ClassifyNext == DetectPostType \/ FilterFeedItemsByType

ClassifySpec == ClassifyInit /\ [][ClassifyNext]_vars

\* --------------------------------------------------------------------------
\* Claims about the classifier and the profile filter (ClassifySpec)
\* --------------------------------------------------------------------------

\* C1: detectPostType returns exactly one tag, chosen by the first matching
\* rule in the order repost (feed item carries a reasonRepost reason), quote
\* (embed is record or recordWithMedia), thread / reply (record has a reply
\* field; thread when the identity segment of the parent URI is the author
\* DID), original. An absent or empty identity on either side is no identity.
C1_FirstMatchingRule ==
    clsPc # "start" =>
        \A k \in 1..Len(feedItems) :
            LET it == feedItems[k]
                p == it.post
                repost == withContainer /\ it.reason = ReasonRepost
                quote == p.embedType \in {EmbedRecord, EmbedRecordWithMedia}
                identity == IF Len(p.parentURI) >= 3 THEN p.parentURI[3] ELSE ""
                self == p.authorDID \notin {Undefined, ""} /\ identity = p.authorDID
            IN  /\ types[k] \in PostTypes
                /\ repost => types[k] = "repost"
                /\ ~repost /\ quote => types[k] = "quote"
                /\ ~repost /\ ~quote /\ p.hasReply /\ self => types[k] = "thread"
                /\ ~repost /\ ~quote /\ p.hasReply /\ ~self => types[k] = "reply"
                /\ ~repost /\ ~quote /\ ~p.hasReply => types[k] = "original"

\* A feed item that is both a repost and a quote has been classified repost.
C1_Witness ==
    /\ clsPc = "detected"
    /\ withContainer
    /\ \E k \in 1..Len(feedItems) :
         /\ feedItems[k].reason = ReasonRepost
         /\ feedItems[k].post.embedType = EmbedRecordWithMedia
         /\ feedItems[k].post.hasReply
         /\ types[k] = "repost"

\* C2 as stated: every post whose reply-parent URI carries the post's own
\* author identity is classified thread.
C2_SelfReplyIsAlwaysThread ==
    clsPc # "start" =>
        \A k \in 1..Len(feedItems) :
            LET p == feedItems[k].post
                identity == IF Len(p.parentURI) >= 3 THEN p.parentURI[3] ELSE ""
            IN  (p.hasReply /\ p.authorDID \notin {Undefined, ""} /\ identity = p.authorDID)
                    => types[k] = "thread"

\* C2 amended: such a post is never classified reply (nor original), and it
\* is classified thread unless one of the two rules of higher precedence
\* applies (repost reason on the feed item, record / recordWithMedia embed).
C2_SelfReplyNeverReply ==
    clsPc # "start" =>
        \A k \in 1..Len(feedItems) :
            LET it == feedItems[k]
                p == it.post
                identity == IF Len(p.parentURI) >= 3 THEN p.parentURI[3] ELSE ""
                repost == withContainer /\ it.reason = ReasonRepost
                quote == p.embedType \in {EmbedRecord, EmbedRecordWithMedia}
            IN  (p.hasReply /\ p.authorDID \notin {Undefined, ""} /\ identity = p.authorDID)
                    => /\ types[k] \notin {"reply", "original"}
                       /\ (~repost /\ ~quote) => types[k] = "thread"

\* A self-reply without repost reason or quote embed has been classified thread.
C2_Witness ==
    /\ clsPc = "detected"
    /\ \E k \in 1..Len(feedItems) :
         /\ feedItems[k].post.hasReply
         /\ feedItems[k].post.authorDID = DidB
         /\ feedItems[k].post.parentURI = PostUriOf(DidB)
         /\ feedItems[k].post.embedType = EmbedImages
         /\ types[k] = "thread"

\* C9: the profile filter keeps an item iff it is a repost and includeReposts
\* is set, or a quote and includeQuotes is set, or an original or thread and
\* includePosts is set (classification by detectPostType); page order is
\* kept; a reply to another author is never kept; 2 originals, 1 repost,
\* 1 quote and 1 reply-to-other with only includePosts yield the 2 originals.
C9_ProfileFilter ==
    clsPc = "filtered" =>
        LET n == Len(feedItems)
            Sel(k) ==
                \/ types[k] = "repost" /\ filters.includeReposts
                \/ types[k] = "quote" /\ filters.includeQuotes
                \/ types[k] \in {"original", "thread"} /\ filters.includePosts
            Sub[k \in 0..n] ==
                IF k = 0 THEN <<>>
                ELSE IF Sel(k) THEN Append(Sub[k - 1], feedItems[k]) ELSE Sub[k - 1]
            Count(t) == Cardinality({k \in 1..n : types[k] = t})
            onlyPosts == filters.includePosts /\ ~filters.includeReposts /\ ~filters.includeQuotes
            typeOf(it) == detectPostType(it.post, [present |-> TRUE, reason |-> it.reason])
        IN  /\ kept = Sub[n]
            /\ \A j \in 1..Len(kept) : typeOf(kept[j]) # "reply"
            /\ (/\ n = 5 /\ onlyPosts
                /\ Count("original") = 2 /\ Count("repost") = 1
                /\ Count("quote") = 1 /\ Count("reply") = 1)
                    => Len(kept) = 2 /\ \A j \in 1..2 : typeOf(kept[j]) = "original"

\* The scenario page (2 originals, 1 repost, 1 quote, 1 reply-to-other) has
\* been filtered with only includePosts set.
C9_Witness ==
    /\ clsPc = "filtered"
    /\ Len(feedItems) = 5
    /\ Cardinality({k \in 1..5 : types[k] = "original"}) = 2
    /\ \E k \in 1..5 : feedItems[k] = RepostItem
    /\ \E k \in 1..5 : feedItems[k] = QuoteItem
    /\ \E k \in 1..5 : feedItems[k] = ReplyToOtherItem
    /\ filters = [includePosts |-> TRUE, includeReposts |-> FALSE, includeQuotes |-> FALSE]
    /\ Len(kept) = 2

\* --------------------------------------------------------------------------
\* Cursor-driven collectors: one action per request / response round trip.
\* The await of fetch is the only suspension point of a loop iteration, so an
\* action is the iteration: the request it builds, the upstream's answer, and
\* everything the code does with it up to the next request or the return.
\* --------------------------------------------------------------------------

ClsIdle ==
    /\ feedItems = <<>>
    /\ withContainer = FALSE
    /\ types = <<>>
    /\ filters = [includePosts |-> TRUE, includeReposts |-> FALSE, includeQuotes |-> FALSE]
    /\ kept = <<>>
    /\ clsPc = "idle"

\* The request is recorded and counted.
Issue(req, resp) ==
    /\ requestCount' = requestCount + 1
    /\ lastReq' = req
    /\ lastResp' = resp

\* return { data: all.slice(0, limit), ... }
Return(n) ==
    /\ colPc' = "returned"
    /\ result' = Slice(n, limit)

\* The error leaves the function.
Throw ==
    /\ colPc' = "threw"
    /\ UNCHANGED result

\* part_001: buildBskyApiUrl(endpoint, params, cursor), the cursor parameter
\* of the URL it returns.
buildBskyApiUrl_AlwaysCursor(c) == ToUSVString(c)

buildBskyApiUrl(c) ==
    IF TruthyCursor(c) /\ c # "" THEN c ELSE NoParam

\* part_001: itemsPerRequest of fetchBskyPaginatedData
itemsPerRequest(lim, requestMultiplier) ==
    Min(100, Max(25, Ceil(lim * requestMultiplier, 4)))

\* part_001: itemsPerRequest of fetchBskyPaginatedDataWithFiltering
filteredItemsPerRequest(lim, requestMultiplier) ==
    Min(100, Max(50, Ceil(lim * requestMultiplier, 3)))

\* part_001: maxRequests = 10
maxRequests == 10

\* part_001: fetchBskyPaginatedData, one iteration of its while loop
FetchBskyPaginatedData ==
    /\ impl = "fetchBskyPaginatedData"
    /\ colPc = "loop"
    /\ requestCount < MaxRequests
    /\ allData < limit
    /\ LET remainingNeeded == limit - allData
           requestLimit == Min(itemsPerRequest(limit, 1), remainingNeeded)
           req == [limit |-> requestLimit, cursor |-> buildBskyApiUrl(cursor)]
       IN  \E resp \in Responses(requestLimit) :
             /\ Issue(req, resp)
             /\ IF ~resp.ok
                THEN Throw /\ UNCHANGED <<allData, cursor>>
                ELSE IF resp.n = 0
                THEN Return(allData) /\ UNCHANGED <<allData, cursor>>
                ELSE /\ allData' = allData + resp.n
                     /\ cursor' = OrNull(resp.cursor)
                     /\ IF allData' >= limit \/ ~TruthyCursor(cursor')
                        THEN Return(allData')
                        ELSE UNCHANGED <<colPc, result>>
    /\ UNCHANGED <<impl, limit, batchSize, members, memberIdx, filteredData, attempts>>
    /\ UNCHANGED <<clsVars, thrVars, anoVars, quoVars, extVars>>

\* part_001: fetchBskyPaginatedDataWithFiltering, one iteration of its loop
FetchBskyPaginatedDataWithFiltering ==
    /\ impl = "fetchBskyPaginatedDataWithFiltering"
    /\ colPc = "loop"
    /\ requestCount < MaxRequests
    /\ allData < limit /\ requestCount < maxRequests
    /\ LET requestLimit == filteredItemsPerRequest(limit, 2)
           req == [limit |-> requestLimit, cursor |-> buildBskyApiUrl(cursor)]
       IN  \E resp \in Responses(requestLimit) :
             /\ Issue(req, resp)
             /\ IF ~resp.ok
                THEN Throw /\ UNCHANGED <<allData, cursor>>
                ELSE IF resp.n = 0
                THEN Return(allData) /\ UNCHANGED <<allData, cursor>>
                ELSE \E matchingItems \in Matching(resp.n) :
                     \* the for loop stops pushing once allData.length >= limit
                     /\ allData' = allData + Min(matchingItems, limit - allData)
                     /\ cursor' = OrNull(resp.cursor)
                     /\ IF allData' >= limit \/ ~TruthyCursor(cursor')
                        THEN Return(allData')
                        ELSE IF requestCount' < maxRequests
                        THEN UNCHANGED <<colPc, result>>
                        ELSE Return(allData')
    /\ UNCHANGED <<impl, limit, batchSize, members, memberIdx, filteredData, attempts>>
    /\ UNCHANGED <<clsVars, thrVars, anoVars, quoVars, extVars>>

\* core-html.js: fetchPaginatedData's cursor parameter. The URL starts from
\* new URLSearchParams(baseParams), which stores the text of every value of
\* baseParams, and the loop's own cursor replaces it only when truthy.
genericCursorParam(baseHasCursor, baseCursor, c) ==
    IF TruthyCursor(c) THEN c
    ELSE IF baseHasCursor THEN ToUSVString(baseCursor)
    ELSE NoParam

\* core-html.js: currentBatchSize of fetchPaginatedData (requestMultiplier = 1,
\* maxBatchSize = 100)
currentBatchSize(bs) == Min(Min(bs, 100) * 1, 100)

\* core-html.js: fetchPaginatedData behind core-bsky.js's wrapper
\* fetchBskyPaginatedData, as part_005's handleSearch calls it
FetchPaginatedData ==
    /\ impl = "fetchPaginatedData"
    /\ colPc = "loop"
    /\ requestCount < MaxRequests
    /\ allData < limit
    /\ LET req == [limit |-> currentBatchSize(batchSize),
                   cursor |-> genericCursorParam(FALSE, Undefined, cursor)]
       IN  \E resp \in Responses(req.limit) :
             /\ Issue(req, resp)
             /\ IF ~resp.ok
                THEN Throw /\ UNCHANGED <<allData, cursor>>
                ELSE IF resp.n = 0
                THEN Return(allData) /\ UNCHANGED <<allData, cursor>>
                ELSE /\ allData' = allData + resp.n
                     /\ cursor' = resp.cursor
                     /\ IF ~TruthyCursor(cursor') \/ ~(allData' < limit)
                        THEN Return(allData')
                        ELSE UNCHANGED <<colPc, result>>
    /\ UNCHANGED <<impl, limit, batchSize, members, memberIdx, filteredData, attempts>>
    /\ UNCHANGED <<clsVars, thrVars, anoVars, quoVars, extVars>>

\* core-html.js: maxAttempts = 5
maxAttempts == 5

\* core-html.js: fetchSize of fetchPaginatedDataWithFiltering (requestMultiplier = 2)
fetchSize(lim, filtered) == Min((lim - filtered) * 2, 100)

\* core-html.js: fetchPaginatedDataWithFiltering. Each attempt of its loop
\* calls fetchPaginatedData with limit = batchSize = fetchSize; the action is
\* one request of that inner loop and, when the inner loop ends, the rest of
\* the attempt. allData and cursor are the inner call's; lastResult is null
\* in the first attempt, and in a later attempt lastResult.hasMore is true
\* (the loop was left otherwise) and lastResult.cursor is undefined (the
\* object fetchPaginatedData returns has no cursor property).
FetchPaginatedDataWithFiltering ==
    /\ impl = "fetchPaginatedDataWithFiltering"
    /\ colPc = "loop"
    /\ requestCount < MaxRequests
    /\ filteredData < limit /\ attempts < maxAttempts
    /\ LET size == fetchSize(limit, filteredData)
           req == [limit |-> currentBatchSize(size),
                   cursor |-> genericCursorParam(attempts >= 1, Undefined, cursor)]
           \* the inner call returns; the attempt filters and counts
           EndAttempt(got, cur) ==
               \E matched \in Matching(Slice(got, size)) :
                 /\ filteredData' = filteredData + matched
                 /\ attempts' = attempts + 1
                 /\ IF ~TruthyCursor(cur)
                    THEN Return(filteredData') /\ allData' = got /\ cursor' = cur
                    ELSE IF filteredData' < limit /\ attempts' < maxAttempts
                    THEN /\ allData' = 0
                         /\ cursor' = Null
                         /\ UNCHANGED <<colPc, result>>
                    ELSE Return(filteredData') /\ allData' = got /\ cursor' = cur
       IN  /\ allData < size
           /\ \E resp \in Responses(req.limit) :
                /\ Issue(req, resp)
                /\ IF ~resp.ok
                   THEN Throw /\ UNCHANGED <<allData, cursor, filteredData, attempts>>
                   ELSE IF resp.n = 0
                   THEN EndAttempt(allData, cursor)
                   ELSE IF ~TruthyCursor(resp.cursor) \/ ~(allData + resp.n < size)
                   THEN EndAttempt(allData + resp.n, resp.cursor)
                   ELSE /\ allData' = allData + resp.n
                        /\ cursor' = resp.cursor
                        /\ UNCHANGED <<filteredData, attempts, colPc, result>>
    /\ UNCHANGED <<impl, limit, batchSize, members, memberIdx>>
    /\ UNCHANGED <<clsVars, thrVars, anoVars, quoVars, extVars>>

\* new URLSearchParams({...}); if (cursor) params.append('cursor', cursor)
appendCursor(c) == IF TruthyCursor(c) THEN c ELSE NoParam

\* bsky-feeds.js: processProfileFeed, one iteration of its while loop
ProcessProfileFeed ==
    /\ impl = "processProfileFeed"
    /\ colPc = "loop"
    /\ requestCount < MaxRequests
    /\ allData < limit
    /\ LET batch == Min(limit, 100)
           requestMultiplier == 2
           req == [limit |-> Min(batch * requestMultiplier, 100), cursor |-> appendCursor(cursor)]
       IN  \E resp \in Responses(req.limit) :
             /\ Issue(req, resp)
             /\ IF ~resp.ok
                THEN Throw /\ UNCHANGED <<allData, cursor>>
                ELSE IF resp.n = 0
                THEN Return(allData) /\ UNCHANGED <<allData, cursor>>
                ELSE \E filteredBatch \in Matching(resp.n) :
                     /\ allData' = allData + filteredBatch
                     /\ cursor' = resp.cursor
                     /\ IF ~TruthyCursor(cursor') \/ allData' >= limit
                        THEN Return(allData')
                        ELSE UNCHANGED <<colPc, result>>
    /\ UNCHANGED <<impl, limit, batchSize, members, memberIdx, filteredData, attempts>>
    /\ UNCHANGED <<clsVars, thrVars, anoVars, quoVars, extVars>>

\* bsky-feeds.js: the loop processCustomFeed and processListFeed share
FeedLoop(name) ==
    /\ impl = name
    /\ colPc = "loop"
    /\ requestCount < MaxRequests
    /\ allData < limit
    /\ LET batch == Min(limit, 100)
           remainingLimit == limit - allData
           req == [limit |-> Min(batch, remainingLimit), cursor |-> appendCursor(cursor)]
       IN  \E resp \in Responses(req.limit) :
             /\ Issue(req, resp)
             /\ IF ~resp.ok
                THEN Throw /\ UNCHANGED <<allData, cursor>>
                ELSE IF resp.n = 0
                THEN Return(allData) /\ UNCHANGED <<allData, cursor>>
                ELSE /\ allData' = allData + resp.n
                     /\ cursor' = resp.cursor
                     /\ IF ~TruthyCursor(cursor') \/ ~(allData' < limit)
                        THEN Return(allData')
                        ELSE UNCHANGED <<colPc, result>>
    /\ UNCHANGED <<impl, limit, batchSize, members, memberIdx, filteredData, attempts>>
    /\ UNCHANGED <<clsVars, thrVars, anoVars, quoVars, extVars>>

ProcessCustomFeed == FeedLoop("processCustomFeed")

ProcessListFeed == FeedLoop("processListFeed")

\* bsky-search.js: handleSearch's loop around searchPosts
HandleSearch ==
    /\ impl = "handleSearch"
    /\ colPc = "loop"
    /\ requestCount < MaxRequests
    /\ allData < limit
    /\ LET remainingLimit == limit - allData
           req == [limit |-> Min(batchSize, remainingLimit), cursor |-> appendCursor(cursor)]
       IN  \E resp \in Responses(req.limit) :
             /\ Issue(req, resp)
             /\ IF ~resp.ok
                THEN Throw /\ UNCHANGED <<allData, cursor>>
                ELSE IF resp.n = 0
                THEN Return(allData) /\ UNCHANGED <<allData, cursor>>
                ELSE /\ allData' = allData + resp.n
                     /\ cursor' = resp.cursor
                     /\ IF ~TruthyCursor(cursor') \/ ~(allData' < limit)
                        THEN Return(allData')
                        ELSE UNCHANGED <<colPc, result>>
    /\ UNCHANGED <<impl, limit, batchSize, members, memberIdx, filteredData, attempts>>
    /\ UNCHANGED <<clsVars, thrVars, anoVars, quoVars, extVars>>

\* bsky-feeds.js: processStarterPackFeed up to the member loop: the
\* getStarterPack request and listItemsSample
ResolveStarterPack ==
    /\ impl = "processStarterPackFeed"
    /\ colPc = "resolve"
    /\ \/ Throw /\ UNCHANGED members
       \/ \E n \in 0..MaxMembers :
            /\ members' = n
            /\ IF n = 0 THEN Return(0) ELSE colPc' = "loop" /\ UNCHANGED result
    /\ UNCHANGED <<impl, limit, batchSize, memberIdx, allData, filteredData, attempts,
                   cursor, requestCount, lastReq, lastResp>>
    /\ UNCHANGED <<clsVars, thrVars, anoVars, quoVars, extVars>>

postsPerUser_WholeLimit(lim, n) == lim

\* bsky-feeds.js: postsPerUser of processStarterPackFeed
postsPerUser(lim, n) == Ceil(lim, n)

\* What the upstream may answer a member's request for r posts: as any
\* request, or not ok with a body all the same, or, ignoring the limit
\* parameter, with a page as large as the whole limit lim.
MemberResponses(r, lim) ==
    Responses(r)
        \cup {[ok |-> FALSE, n |-> r, cursor |-> Undefined]}
        \cup {[ok |-> TRUE, n |-> lim, cursor |-> Undefined]}

userPosts_StatusIgnored(resp) == resp.n

\* bsky-feeds.js: the number of userPosts pushed to allPosts: the body is
\* read only if userResponse.ok; a thrown fetch is caught and adds nothing.
userPosts(resp) == IF resp.ok THEN resp.n ELSE 0

\* bsky-feeds.js: processStarterPackFeed, one member of its for loop: a
\* member without handle is skipped; a fetch that throws or answers non-2xx
\* adds nothing; the loop ends after the last member or at the limit.
ProcessStarterPackMember ==
    /\ impl = "processStarterPackFeed"
    /\ colPc = "loop"
    /\ memberIdx < members
    /\ allData < limit
    /\ memberIdx' = memberIdx + 1
    /\ \/ \* item.subject?.handle is absent: continue
          /\ allData' = allData
          /\ UNCHANGED <<requestCount, lastReq, lastResp>>
       \/ LET req == [limit |-> Min(postsPerUser(limit, members), limit - allData),
                      cursor |-> NoParam]
          IN  \E resp \in MemberResponses(req.limit, limit) :
                /\ Issue(req, resp)
                /\ allData' = allData + userPosts(resp)
    /\ IF memberIdx' = members \/ allData' >= limit
       THEN Return(allData')
       ELSE UNCHANGED <<colPc, result>>
    /\ UNCHANGED <<impl, limit, batchSize, members, filteredData, attempts, cursor>>
    /\ UNCHANGED <<clsVars, thrVars, anoVars, quoVars, extVars>>

\* The collectors and the limits their callers pass.
FeedImpls == {"processProfileFeed", "processCustomFeed", "processListFeed",
              "processStarterPackFeed"}

Impls == FeedImpls \cup {"fetchBskyPaginatedData", "fetchBskyPaginatedDataWithFiltering",
                         "fetchPaginatedData", "fetchPaginatedDataWithFiltering",
                         "handleSearch"}

\* No caller in the repository passes a limit to the filtered collectors:
\* the default of their options, and the smallest the pages offer.
FilteredLimits == {25, 100}

LimitsOf(name) ==
    IF name \in FeedImpls THEN FeedUiLimits
    ELSE IF name \in {"fetchBskyPaginatedDataWithFiltering", "fetchPaginatedDataWithFiltering"}
    THEN FilteredLimits
    ELSE SearchUiLimits

\* batchSize of the search callers: Math.min(limit, 100), or 25 for a large
\* limit with sort = top
BatchSizes(name, lim) ==
    IF name \in {"fetchPaginatedData", "handleSearch"}
    THEN {Min(lim, 100)} \cup (IF lim > 100 THEN {25} ELSE {})
    ELSE {0}

CollectInit ==
    /\ ClsIdle
    /\ ThrIdle
    /\ AnoIdle
    /\ QuoIdle
    /\ ExtIdle
    /\ impl \in Impls
    /\ limit \in LimitsOf(impl)
    /\ batchSize \in BatchSizes(impl, limit)
    /\ members = -1
    /\ memberIdx = 0
    /\ allData = 0
    /\ filteredData = 0
    /\ attempts = 0
    /\ cursor = Null
    /\ requestCount = 0
    /\ lastReq = NoRequest
    /\ lastResp = FailedResponse
    /\ colPc = IF impl = "processStarterPackFeed" THEN "resolve" ELSE "loop"
    /\ result = 0

CollectNext ==
    \/ FetchBskyPaginatedData
    \/ FetchBskyPaginatedDataWithFiltering
    \/ FetchPaginatedData
    \/ FetchPaginatedDataWithFiltering
    \/ ProcessProfileFeed
    \/ ProcessCustomFeed
    \/ ProcessListFeed
    \/ ResolveStarterPack
    \/ ProcessStarterPackMember
    \/ HandleSearch

Spec == CollectInit /\ [][CollectNext]_vars

\* --------------------------------------------------------------------------
\* Claims about the collectors (Spec)
\* --------------------------------------------------------------------------

\* C3: the filtered collector issues at most maxRequests (10) requests
\* before it returns what it has; stated for the two filtered collectors
\* the claim names, fetchBskyPaginatedDataWithFiltering and
\* processProfileFeed.
C3_RequestCeiling ==
    impl \in {"fetchBskyPaginatedDataWithFiltering", "processProfileFeed"}
        => requestCount <= maxRequests

\* C4: in collect and collectFiltered, once a response has returned zero
\* items or no cursor, the operation has returned (so no further request
\* is issued).
C4_StopsOnEmptyOrNoCursor ==
    (/\ impl \in {"fetchBskyPaginatedData", "fetchBskyPaginatedDataWithFiltering",
                  "fetchPaginatedData", "fetchPaginatedDataWithFiltering"}
     /\ requestCount >= 1
     /\ lastResp.ok
     /\ (lastResp.n = 0 \/ ~TruthyCursor(lastResp.cursor)))
        => colPc = "returned"

\* C5: whatever the upstream answers, a collector or feed orchestrator that
\* returns, returns at most limit items.
C5_AtMostLimit ==
    colPc = "returned" => result <= limit

\* A collector has returned after collecting more than limit items.
C5_Witness ==
    /\ colPc = "returned"
    /\ impl = "processProfileFeed"
    /\ allData > limit
    /\ result = limit

\* C6: the first request of collect and of collectFiltered carries no cursor
\* parameter.
C6_FirstRequestWithoutCursor ==
    requestCount = 1 => lastReq.cursor = NoParam

\* The filtered collector has issued its first request and goes on.
C6_Witness ==
    /\ impl = "fetchBskyPaginatedDataWithFiltering"
    /\ requestCount = 1
    /\ lastReq.cursor = NoParam
    /\ colPc = "loop"
    /\ TruthyCursor(cursor)

\* C7: a request after the first carries a cursor parameter only if the
\* response before it returned a non-empty string cursor, and then exactly
\* that cursor; no request carries a placeholder such as undefined or null.
C7_CursorThreading ==
    [][(requestCount >= 1 /\ requestCount' = requestCount + 1
        /\ impl # "processStarterPackFeed")
          => /\ lastReq'.cursor \notin {"undefined", "null"}
             /\ lastReq'.cursor # NoParam
                  => TruthyCursor(lastResp.cursor) /\ lastReq'.cursor = lastResp.cursor]_vars

\* C8: the limit parameter of every listing request is at least 1 and at
\* most the server's maximum page size of 100.
C8_RequestLimitInRange ==
    requestCount >= 1 => lastReq.limit \in 1..100

\* --------------------------------------------------------------------------
\* The anonymizer: anonymizePost, anonymizePosts, anonymizeFeedItems
\*
\* An optional field is the sequence of its zero or one values: <<>> is an
\* absent field, <<v>> a field of value v. A timestamp string is its
\* instant, a number from 1 on, and EmptyTime is the empty string ''. A text
\* whose length matters is the sequence of its character codes.
\* --------------------------------------------------------------------------

EmptyTime == 0

\* x || 0 and x || '' for an optional number / timestamp
TruthyNum(o) == o # <<>> /\ o[1] # 0

OrZero(o) == IF TruthyNum(o) THEN o[1] ELSE 0

\* The text of n characters whose k-th character has code FirstChar + k.
FirstChar == 1000

TextOf(n) == [k \in 1..n |-> FirstChar + k]

\* '...'
Dot == 46

Ellipsis == <<Dot, Dot, Dot>>

SnippetLength == 100

extractQuotedTextSnippet_OffByOne(post) ==
    LET quotedText ==
            IF post.embedType = EmbedRecord THEN post.quotedText
            ELSE IF post.embedType = EmbedRecordWithMedia THEN post.quotedTextMedia
            ELSE <<>>
    IN  IF post.embedType = NoEmbed THEN <<>>
        ELSE IF quotedText # <<>> /\ quotedText[1] # <<>>
        THEN IF Len(quotedText[1]) >= SnippetLength
             THEN <<SubSeq(quotedText[1], 1, SnippetLength) \o Ellipsis>>
             ELSE <<quotedText[1]>>
        ELSE <<>>

\* bsky-core.js: extractQuotedTextSnippet(post.record?.embed); post.quotedText
\* is embed.record?.value?.text, post.quotedTextMedia is
\* embed.record?.record?.value?.text. <<>> is the null it returns.
extractQuotedTextSnippet(post) ==
    LET quotedText ==
            IF post.embedType = EmbedRecord THEN post.quotedText
            ELSE IF post.embedType = EmbedRecordWithMedia THEN post.quotedTextMedia
            ELSE <<>>
    IN  IF post.embedType = NoEmbed THEN <<>>
        ELSE IF quotedText # <<>> /\ quotedText[1] # <<>>
        THEN IF Len(quotedText[1]) > SnippetLength
             THEN <<SubSeq(quotedText[1], 1, SnippetLength) \o Ellipsis>>
             ELSE <<quotedText[1]>>
        ELSE <<>>

\* bsky-core.js: extractAltText(embed), for an embed of the given $type whose
\* images (embed.images, or embed.media.images) carry the given alt values.
EmbedImagesView == "app.bsky.embed.images#view"
EmbedRecordWithMediaView == "app.bsky.embed.recordWithMedia#view"

extractAltText(type, images) ==
    IF type \in {EmbedImages, EmbedRecordWithMedia,
                 EmbedImagesView, EmbedRecordWithMediaView}
       /\ images # <<>>
    THEN SelectSeq(images[1], TruthyStr)
    ELSE <<>>

\* bsky-core.js: hasMedia(post)
hasMedia(post) ==
    IF post.embedType = NoEmbed THEN FALSE
    ELSE IF \/ post.embedType = EmbedImages
            \/ post.embedType = EmbedExternal
            \/ post.embedType = EmbedRecordWithMedia
    THEN TRUE
    ELSE FALSE

\* bsky-core.js: hasLinks(post); post.facets is the optional list of the
\* facets, each the list of the $type of its features.
LinkFeature == "app.bsky.richtext.facet#link"
MentionFeature == "app.bsky.richtext.facet#mention"

hasLinks(post) ==
    IF post.facets = <<>> THEN FALSE
    ELSE \E k \in 1..Len(post.facets[1]) :
           \E j \in 1..Len(post.facets[1][k]) : post.facets[1][k][j] = LinkFeature

\* A post without any optional field; also what post?.field reads when
\* post itself is undefined.
BlankPost ==
    [text |-> Undefined, createdAt |-> <<>>, indexedAt |-> <<>>,
     likeCount |-> <<>>, replyCount |-> <<>>, repostCount |-> <<>>,
     quoteCount |-> <<>>, langs |-> <<>>, facets |-> <<>>,
     embedType |-> NoEmbed, images |-> <<>>,
     viewEmbedType |-> NoEmbed, viewImages |-> <<>>,
     quotedText |-> <<>>, quotedTextMedia |-> <<>>,
     hasReply |-> FALSE, parentURI |-> NoUri, authorDID |-> Undefined]

\* The default argument feedItem = null of anonymizePost and detectPostType.
NoFeedItem == [present |-> FALSE, reason |-> NoReason]

\* The options anonymizePost reads, with their defaults.
DefaultOptions ==
    [includePostType |-> TRUE, includeAltText |-> TRUE,
     includeQuotedSnippet |-> FALSE, postType |-> Null,
     feedItem |-> NoFeedItem, index |-> 0, sourceType |-> "feed"]

\* `post_${index + 1}`
PostId(index) == <<"post_", index + 1>>

\* bsky-core.js: the record anonymizePost builds, given the postType it
\* has decided on (<<>> when it includes none).
anonymizedRecord(post, options, type) ==
    LET first == IF post.langs # <<>> /\ Len(post.langs[1]) >= 1
                 THEN post.langs[1][1] ELSE Undefined
        altTexts == extractAltText(post.embedType, post.images)
        viewAltTexts == extractAltText(post.viewEmbedType, post.viewImages)
        recordAlt == IF options.includeAltText /\ Len(altTexts) > 0
                     THEN <<altTexts>> ELSE <<>>
        altText == IF options.includeAltText /\ Len(viewAltTexts) > 0
                   THEN IF recordAlt # <<>> THEN <<recordAlt[1] \o viewAltTexts>>
                        ELSE <<viewAltTexts>>
                   ELSE recordAlt
        snippet == IF options.includeQuotedSnippet /\ type = <<"quote">>
                   THEN extractQuotedTextSnippet(post) ELSE <<>>
    IN  [id |-> PostId(options.index),
         text |-> IF TruthyStr(post.text) THEN post.text ELSE "",
         createdAt |-> IF TruthyNum(post.createdAt) THEN post.createdAt[1]
                       ELSE IF TruthyNum(post.indexedAt) THEN post.indexedAt[1]
                       ELSE EmptyTime,
         likeCount |-> OrZero(post.likeCount),
         replyCount |-> OrZero(post.replyCount),
         repostCount |-> OrZero(post.repostCount),
         hasMedia |-> hasMedia(post),
         hasLinks |-> hasLinks(post),
         language |-> IF TruthyStr(first) THEN first ELSE "unknown",
         quoteCount |-> post.quoteCount,
         postType |-> type,
         altText |-> altText,
         quotedPostSnippet |-> snippet]

anonymizePost_TypeNotDetected(post, options) ==
    anonymizedRecord(post, options,
        IF options.includePostType THEN <<options.postType>> ELSE <<>>)

\* bsky-core.js: anonymizePost(post, options). The optional properties of
\* the result (quoteCount, postType, altText, quotedPostSnippet) are
\* optional fields.
anonymizePost(post, options) ==
    anonymizedRecord(post, options,
        IF options.includePostType
        THEN <<IF options.postType # Null /\ options.postType # ""
               THEN options.postType
               ELSE detectPostType(post, options.feedItem)>>
        ELSE <<>>)

\* An item of a collection is a feed item, {post, reason}, or the post
\* itself: [kind |-> "feedItem" | "post", post |-> the post, reason |-> the
\* $type of the feed item's reason].
\* bsky-core.js: extractPostFromItem(item, sourceType), <<>> for undefined. A
\* feed item read as a post has none of a post's fields.
extractPostFromItem(item, sourceType) ==
    IF sourceType \in {"feed", "thread"}
    THEN IF item.kind = "feedItem" THEN <<item.post>> ELSE <<>>
    ELSE IF sourceType = "search"
    THEN IF item.kind = "post" THEN <<item.post>> ELSE <<BlankPost>>
    ELSE <<item.post>>

ItemOptions(item, options, idx) ==
    [options EXCEPT !.index = idx,
                    !.feedItem = IF options.sourceType = "feed" /\ item.kind = "feedItem"
                                 THEN [present |-> TRUE, reason |-> item.reason]
                                 ELSE NoFeedItem]

anonymizePosts_IndexNotPassed(posts, options) ==
    [k \in 1..Len(posts) |->
        anonymizePost(extractPostFromItem(posts[k], options.sourceType)[1],
                      ItemOptions(posts[k], options, options.index))]

\* bsky-core.js: anonymizePosts(posts, options), for items that have a post
\* under options.sourceType.
anonymizePosts(posts, options) ==
    [k \in 1..Len(posts) |->
        anonymizePost(extractPostFromItem(posts[k], options.sourceType)[1],
                      ItemOptions(posts[k], options, k - 1))]

\* bsky-feeds.js: anonymizeFeedItems(feedItems); item.post and item.reason
\* are undefined for an item that is the post itself.
anonymizeFeedItems(items) ==
    [k \in 1..Len(items) |->
        LET item == items[k]
            post == IF item.kind = "feedItem" THEN item.post ELSE BlankPost
            isRepost == item.kind = "feedItem" /\ item.reason = ReasonRepost
            isQuotePost ==
                /\ ~isRepost
                /\ (post.embedType = EmbedRecord \/ post.embedType = EmbedRecordWithMedia)
            hasReplyField == post.hasReply
            isSelfReply ==
                /\ hasReplyField
                /\ TruthyStr(post.authorDID)
                /\ TruthyUri(post.parentURI)
                /\ post.authorDID = SplitAt(post.parentURI, 2)
            isReply == hasReplyField /\ ~isSelfReply
            postType == IF isRepost THEN "repost"
                        ELSE IF isQuotePost THEN "quote"
                        ELSE IF isReply THEN "reply"
                        ELSE IF isSelfReply THEN "thread"
                        ELSE "original"
            first == IF post.langs # <<>> /\ Len(post.langs[1]) >= 1
                     THEN post.langs[1][1] ELSE Undefined
        IN  [id |-> PostId(k - 1),
             text |-> IF TruthyStr(post.text) THEN post.text ELSE "",
             createdAt |-> IF TruthyNum(post.createdAt) THEN post.createdAt[1]
                           ELSE EmptyTime,
             likeCount |-> OrZero(post.likeCount),
             replyCount |-> OrZero(post.replyCount),
             repostCount |-> OrZero(post.repostCount),
             hasMedia |-> /\ post.embedType # NoEmbed
                          /\ post.embedType # EmbedRecord
                          /\ post.embedType # EmbedRecordWithMedia,
             hasLinks |-> hasLinks(post),
             language |-> IF TruthyStr(first) THEN first ELSE "unknown",
             quoteCount |-> <<>>,
             postType |-> <<postType>>,
             altText |-> <<>>,
             quotedPostSnippet |-> <<>>]]

\* --------------------------------------------------------------------------
\* The anonymizer applied to posts and collections
\* --------------------------------------------------------------------------

MaxTextLen == 102
MaxColl == 3

TextLens == {0, 1, SnippetLength - 1, SnippetLength, SnippetLength + 1, MaxTextLen}

\* Posts that differ in the fields with a default.
DefaultsPosts ==
    { [BlankPost EXCEPT !.text = t, !.createdAt = c, !.indexedAt = i,
                        !.likeCount = l, !.replyCount = r, !.repostCount = rp,
                        !.quoteCount = q, !.langs = la] :
        t \in {Undefined, "", "hello"}, c \in {<<>>, <<EmptyTime>>, <<5>>},
        i \in {<<>>, <<7>>}, l \in {<<>>, <<0>>, <<3>>}, r \in {<<>>, <<2>>},
        rp \in {<<>>, <<4>>}, q \in {<<>>, <<0>>},
        la \in {<<>>, <<<<>>>>, <<<<"">>>>, <<<<"en", "de">>>>} }

\* Posts that differ in what the classifier reads.
ClassPosts ==
    { [BlankPost EXCEPT !.text = "hello", !.embedType = p.embedType,
                        !.hasReply = p.hasReply, !.parentURI = p.parentURI,
                        !.authorDID = p.authorDID] : p \in Posts }

\* Posts that differ in the quoted text of their embed.
SnippetPosts ==
    { [BlankPost EXCEPT !.embedType = e, !.quotedText = q, !.quotedTextMedia = m] :
        e \in EmbedTypes,
        q \in {<<>>} \cup {<<TextOf(n)>> : n \in TextLens},
        m \in {<<>>, <<TextOf(2)>>, <<TextOf(MaxTextLen)>>} }

\* Posts that differ in their images and facets.
AltPosts ==
    { [BlankPost EXCEPT !.embedType = e, !.images = im, !.viewEmbedType = ve,
                        !.viewImages = vi, !.facets = f] :
        e \in EmbedTypes, im \in {<<>>, <<<<"a", "", "b">>>>},
        ve \in {NoEmbed, EmbedImagesView, EmbedRecordWithMediaView},
        vi \in {<<>>, <<<<"c">>>>},
        f \in {<<>>, <<<<>>>>, <<<< <<MentionFeature>> >>>>,
               <<<< <<MentionFeature>>, <<LinkFeature>> >>>>} }

\* part_009: the options processReplies passes to anonymizePosts
ReplyOptions ==
    [DefaultOptions EXCEPT !.sourceType = "search", !.includePostType = FALSE,
                           !.includeAltText = TRUE]

\* part_009: the options processQuotes passes to anonymizePosts
QuoteOptions == [ReplyOptions EXCEPT !.includeQuotedSnippet = TRUE]

CallerOptions == {DefaultOptions, ReplyOptions, QuoteOptions}

AllOptions ==
    { [includePostType |-> t, includeAltText |-> a, includeQuotedSnippet |-> q,
       postType |-> pt, feedItem |-> fi, index |-> 0, sourceType |-> "search"] :
        t \in BOOLEAN, a \in BOOLEAN, q \in BOOLEAN, pt \in {Null} \cup PostTypes,
        fi \in {NoFeedItem} \cup {[present |-> TRUE, reason |-> r] : r \in Reasons} }

PostItem(p) == [kind |-> "post", post |-> p, reason |-> NoReason]

FeedItem(p, r) == [kind |-> "feedItem", post |-> p, reason |-> r]

\* A few posts for the collections.
SamplePosts ==
    { [BlankPost EXCEPT !.text = "hello", !.createdAt = <<5>>],
      [BlankPost EXCEPT !.indexedAt = <<7>>, !.hasReply = TRUE,
                        !.parentURI = PostUriOf(DidA), !.authorDID = DidA],
      [BlankPost EXCEPT !.text = "quoting", !.embedType = EmbedRecord,
                        !.quotedText = <<TextOf(SnippetLength + 1)>>] }

Collections(items) ==
    UNION { [1..n -> items] : n \in 0..MaxColl }

SampleFeedItems == { FeedItem(p, r) : p \in SamplePosts, r \in {NoReason, ReasonRepost} }

SamplePostItems == { PostItem(p) : p \in SamplePosts }

\* One post with the options of a caller or with any options; a collection
\* whose items are what its sourceType says; the posts handleFeedSubmission
\* hands to anonymizeFeedItems: feed items, or the bare posts of
\* processStarterPackFeed.
AnonInit ==
    /\ ClsIdle
    /\ ColIdle
    /\ ThrIdle
    /\ QuoIdle
    /\ ExtIdle
    /\ anoOut = <<>>
    /\ anoPc = "start"
    /\ \/ /\ anoCall = "anonymizePost"
          /\ \/ /\ anoItems \in { <<PostItem(p)>> : p \in DefaultsPosts }
                /\ anoOptions \in CallerOptions
             \/ /\ anoItems \in { <<PostItem(p)>> : p \in ClassPosts \cup SnippetPosts \cup AltPosts }
                /\ anoOptions \in AllOptions
       \/ /\ anoCall = "anonymizePosts"
          /\ \E o \in CallerOptions, st \in {"feed", "search", "thread"} :
               /\ anoOptions = [o EXCEPT !.sourceType = st]
               /\ anoItems \in Collections(IF st = "search" THEN SamplePostItems
                                           ELSE SampleFeedItems)
       \/ /\ anoCall = "anonymizeFeedItems"
          /\ anoOptions = DefaultOptions
          /\ \/ anoItems \in Collections(SampleFeedItems)
             \/ anoItems \in Collections(SamplePostItems)
             \/ anoItems \in { <<FeedItem(p, r)>> :
                                 p \in DefaultsPosts \cup ClassPosts, r \in Reasons }

AnonymizePost ==
    /\ anoPc = "start"
    /\ anoCall = "anonymizePost"
    /\ anoOut' = <<anonymizePost(anoItems[1].post, anoOptions)>>
    /\ anoPc' = "done"
    /\ UNCHANGED <<anoCall, anoItems, anoOptions>>
    /\ UNCHANGED <<clsVars, colVars, thrVars, quoVars, extVars>>

AnonymizePosts ==
    /\ anoPc = "start"
    /\ anoCall = "anonymizePosts"
    /\ anoOut' = anonymizePosts(anoItems, anoOptions)
    /\ anoPc' = "done"
    /\ UNCHANGED <<anoCall, anoItems, anoOptions>>
    /\ UNCHANGED <<clsVars, colVars, thrVars, quoVars, extVars>>

AnonymizeFeedItems ==
    /\ anoPc = "start"
    /\ anoCall = "anonymizeFeedItems"
    /\ anoOut' = anonymizeFeedItems(anoItems)
    /\ anoPc' = "done"
    /\ UNCHANGED <<anoCall, anoItems, anoOptions>>
    /\ UNCHANGED <<clsVars, colVars, thrVars, quoVars, extVars>>

AnonNext == AnonymizePost \/ AnonymizePosts \/ AnonymizeFeedItems

AnonSpec == AnonInit /\ [][AnonNext]_vars

\* --------------------------------------------------------------------------
\* The thread tool: processReplies and extractReplies
\* --------------------------------------------------------------------------

MaxReplies == 3

\* The URI of the post whose thread is asked for, and of its k-th reply.
RootUri == 0
ReplyUri(k) == k

\* The elements of a set of numbers in ascending order.
RECURSIVE Ascending(_)
Ascending(S) ==
    IF S = {} THEN <<>>
    ELSE LET m == CHOOSE x \in S : \A y \in S : x <= y
         IN  <<m>> \o Ascending(S \ {m})

\* A post of a thread view: its URI, the URI of the post it answers, its
\* creation time, and a text.
ThreadPost(uri, parent, createdAt) ==
    [uri |-> uri, parent |-> parent,
     text |-> "a reply", createdAt |-> <<createdAt>>, indexedAt |-> <<createdAt>>,
     likeCount |-> <<>>, replyCount |-> <<>>, repostCount |-> <<>>,
     quoteCount |-> <<>>, langs |-> <<>>, facets |-> <<>>,
     embedType |-> NoEmbed, images |-> <<>>,
     viewEmbedType |-> NoEmbed, viewImages |-> <<>>,
     quotedText |-> <<>>, quotedTextMedia |-> <<>>,
     hasReply |-> TRUE, parentURI |-> PostUriOf(DidB), authorDID |-> DidA]

\* The posts of a list as the items of a collection of posts.
AsPostItems(posts) ==
    [k \in 1..Len(posts) |-> [kind |-> "post", post |-> posts[k], reason |-> NoReason]]

\* The thread view of post i in an upstream answer with n replies, where
\* parent[k] is the post reply k answers, created[k] its creation time and
\* viewable[k] whether the upstream shows it. The upstream lists a post's
\* replies in the order of their numbers, which is not the order of their
\* creation times.
RECURSIVE ThreadView(_, _, _, _, _)
ThreadView(i, n, parent, created, viewable) ==
    LET shown == i = RootUri \/ viewable[i]
        kids == Ascending({k \in 1..n : parent[k] = i})
    IN  [post |-> IF shown
                  THEN <<ThreadPost(ReplyUri(i),
                                    IF i = RootUri THEN -1 ELSE parent[i],
                                    IF i = RootUri THEN 1 ELSE created[i])>>
                  ELSE <<>>,
         replies |-> IF shown \/ kids # <<>>
                     THEN <<[k \in 1..Len(kids) |->
                               ThreadView(kids[k], n, parent, created, viewable)]>>
                     ELSE <<>>]

\* The threads getPostThread can answer with, with n replies: every reply
\* answers the post or an earlier reply. A reply the upstream does not show
\* (a blocked or not-found view) has no post; traverseReplies descends into
\* it all the same, so it may carry replies whose parent is then not among
\* the posts. Only the order of the creation times matters, so n of them
\* are enough.
ParentMaps(n) == { p \in [1..n -> 0..(n - 1)] : \A k \in 1..n : p[k] < k }

ViewableMaps(n, parent) == [1..n -> BOOLEAN]

RECURSIVE traverseReplies_SkipsPostless(_)
traverseReplies_SkipsPostless(node) ==
    IF node.replies = <<>> THEN <<>>
    ELSE LET list == node.replies[1]
             RECURSIVE each(_)
             each(k) ==
                 IF k > Len(list) THEN <<>>
                 ELSE (IF list[k].post = <<>> THEN <<>>
                       ELSE list[k].post \o traverseReplies_SkipsPostless(list[k]))
                      \o each(k + 1)
         IN  each(1)

\* traverseReplies(node), as the posts it pushes, in the order it pushes
\* them: each reply's post, if it has one, then what the reply's own
\* traversal pushes, reply after reply.
RECURSIVE traverseReplies(_)
traverseReplies(node) ==
    IF node.replies = <<>> THEN <<>>
    ELSE LET list == node.replies[1]
             RECURSIVE each(_)
             each(k) ==
                 IF k > Len(list) THEN <<>>
                 ELSE list[k].post \o traverseReplies(list[k]) \o each(k + 1)
         IN  each(1)

extractReplies(t) == traverseReplies(t)

\* fetchOriginalPost returns the post or, after a failure, null.
FetchOriginalPost ==
    /\ thrPc = "start"
    /\ originalPost' \in BOOLEAN
    /\ thrPc' = "original"
    /\ UNCHANGED <<thread, replies, output>>
    /\ UNCHANGED <<clsVars, colVars, anoVars, quoVars, extVars>>

\* The rest of processReplies: the getPostThread request, and on its answer
\* extractReplies, anonymizePosts and displayOutput; a failed request is
\* thrown and shown as an error.
ProcessReplies ==
    /\ thrPc = "original"
    /\ \/ /\ thrPc' = "error"
          /\ UNCHANGED <<thread, replies, output>>
       \/ \E n \in 0..MaxReplies :
          \E parent \in ParentMaps(n), created \in [1..n -> 1..n] :
          \E viewable \in ViewableMaps(n, parent) :
            /\ thread' = ThreadView(RootUri, n, parent, created, viewable)
            /\ replies' = extractReplies(thread')
            /\ output' = [root |-> IF originalPost
                                   THEN "anonymized original post"
                                   ELSE "[Original post could not be fetched]",
                          replies |-> anonymizePosts(AsPostItems(replies'), ReplyOptions),
                          totalReplies |-> Len(replies')]
            /\ thrPc' = "displayed"
    /\ UNCHANGED originalPost
    /\ UNCHANGED <<clsVars, colVars, anoVars, quoVars, extVars>>

ThreadInit ==
    /\ ClsIdle
    /\ ColIdle
    /\ AnoIdle
    /\ QuoIdle
    /\ ExtIdle
    /\ originalPost = FALSE
    /\ thread = NoThread
    /\ replies = <<>>
    /\ output = NoOutput
    /\ thrPc = "start"

ThreadNext == FetchOriginalPost \/ ProcessReplies

ThreadSpec == ThreadInit /\ [][ThreadNext]_vars

\* The children list of a node of the output; a node without the field has
\* no children.
Children(node) ==
    IF "children" \in DOMAIN node THEN node.children ELSE <<>>

SortedByCreation(nodes) ==
    \A i, j \in 1..Len(nodes) : i < j => nodes[i].createdAt <= nodes[j].createdAt

\* C10: the reply output is a forest whose top-level list and children lists
\* are sorted by creation time ascending, and every reply whose parent is
\* among the replies is in that parent's children list and not at top level.
C10_ReplyForest ==
    thrPc = "displayed" =>
        /\ SortedByCreation(output.replies)
        /\ \A k \in 1..Len(replies) :
             LET node == [id |-> PostId(k - 1)]
                 top == \E i \in 1..Len(output.replies) : output.replies[i].id = node.id
             IN  IF \E m \in 1..Len(replies) : replies[m].uri = replies[k].parent
                 THEN /\ ~top
                      /\ \E m \in 1..Len(output.replies) :
                           /\ replies[m].uri = replies[k].parent
                           /\ SortedByCreation(Children(output.replies[m]))
                           /\ \E c \in 1..Len(Children(output.replies[m])) :
                                Children(output.replies[m])[c].id = node.id
                 ELSE top

\* The URIs of the replies of a thread view that have a post.
RECURSIVE ShownReplies(_)
ShownReplies(node) ==
    IF node.replies = <<>> THEN {}
    ELSE LET list == node.replies[1]
         IN  UNION { {p.uri : p \in {list[k].post[j] : j \in 1..Len(list[k].post)}}
                       \cup ShownReplies(list[k]) : k \in 1..Len(list) }

C13_PostTypeIsATag ==
    anoPc = "done" =>
        \A i \in 1..Len(anoOut) :
            anoOut[i].postType # <<>> => anoOut[i].postType[1] \in PostTypes

\* anonymizePost has classified a self-reply itself, no postType supplied.
C13_Witness ==
    /\ anoPc = "done"
    /\ anoCall = "anonymizePost"
    /\ anoOptions.includePostType
    /\ anoOptions.postType = Null
    /\ anoOut[1].postType = <<"thread">>

\* The quoted text the snippet is taken from: embed.record.value.text of a
\* record embed, embed.record.record.value.text of a recordWithMedia embed.
QuotedTextOf(post) ==
    IF post.embedType = EmbedRecord THEN post.quotedText
    ELSE IF post.embedType = EmbedRecordWithMedia THEN post.quotedTextMedia
    ELSE <<>>

\* C18: the snippet of a quoted text longer than 100 characters is its first
\* 100 characters followed by '...'; a quoted text of at most 100 characters
\* is the snippet, unmodified; an absent or empty quoted text gives none.
C18_Snippet ==
    (/\ anoPc = "done"
     /\ anoCall = "anonymizePost"
     /\ anoOptions.includeQuotedSnippet
     /\ anoOut[1].postType = <<"quote">>) =>
        LET q == QuotedTextOf(anoItems[1].post)
            snippet == anoOut[1].quotedPostSnippet
        IN  IF q = <<>> \/ q[1] = <<>> THEN snippet = <<>>
            ELSE IF Len(q[1]) > 100
            THEN /\ snippet # <<>>
                 /\ Len(snippet[1]) = 103
                 /\ \A k \in 1..100 : snippet[1][k] = q[1][k]
                 /\ \A k \in 101..103 : snippet[1][k] = Dot
            ELSE snippet = q

\* A quoted text of 101 characters has been cut to 100 and the ellipsis.
C18_Witness ==
    /\ anoPc = "done"
    /\ anoCall = "anonymizePost"
    /\ QuotedTextOf(anoItems[1].post) = <<TextOf(101)>>
    /\ anoOut[1].quotedPostSnippet # <<>>
    /\ Len(anoOut[1].quotedPostSnippet[1]) = 103

\* C19: with includeQuotedSnippet = true a record has quotedPostSnippet if
\* and only if its post is of type quote and the quoted record has text;
\* also with includePostType = false, as the quote-discovery callers pass.
C19_SnippetIffQuote ==
    (/\ anoPc = "done"
     /\ anoCall \in {"anonymizePost", "anonymizePosts"}
     /\ anoOptions.includeQuotedSnippet) =>
        \A i \in 1..Len(anoOut) :
            LET post == anoItems[i].post
                q == QuotedTextOf(post)
                type == IF anoOut[i].postType # <<>> THEN anoOut[i].postType[1]
                        ELSE detectPostType(post, ItemOptions(anoItems[i], anoOptions, 0).feedItem)
            IN  anoOut[i].quotedPostSnippet # <<>>
                    <=> (type = "quote" /\ q # <<>> /\ q[1] # <<>>)

\* C20: every output record has the documented default for each absent
\* field: text '', counters 0, language 'unknown', createdAt the authored
\* timestamp, else the indexed timestamp, else ''; in feed output too.
C20_Defaults ==
    anoPc = "done" =>
        \A i \in 1..Len(anoOut) :
            anoItems[i].kind = "feedItem" \/ anoCall # "anonymizeFeedItems" =>
                LET post == anoItems[i].post
                    out == anoOut[i]
                IN  /\ post.text = Undefined => out.text = ""
                    /\ post.likeCount = <<>> => out.likeCount = 0
                    /\ post.replyCount = <<>> => out.replyCount = 0
                    /\ post.repostCount = <<>> => out.repostCount = 0
                    /\ (post.langs = <<>> \/ post.langs[1] = <<>>) => out.language = "unknown"
                    /\ TruthyNum(post.createdAt) => out.createdAt = post.createdAt[1]
                    /\ (post.createdAt = <<>> /\ TruthyNum(post.indexedAt))
                           => out.createdAt = post.indexedAt[1]
                    /\ (post.createdAt = <<>> /\ post.indexedAt = <<>>)
                           => out.createdAt = EmptyTime

\* C20 for the records of anonymizePost and anonymizePosts alone.
C20_DefaultsOfAnonymizePost ==
    (anoPc = "done" /\ anoCall # "anonymizeFeedItems") => C20_Defaults

\* --------------------------------------------------------------------------
\* Quote discovery: findQuotesUsingGetQuotesAPI and findQuotesViaSearch of
\* part_009, findQuotesForPost, fetchDirectQuotes and searchForQuotes of
\* bsky-quote.js. A record key is the sequence of its character codes; one
\* action is one request with its response.
\* --------------------------------------------------------------------------

MaxKeyLen == 13
MaxHits == 2

\* at://<identity>/app.bsky.feed.post/<postId>, split at '/'
QuoteUri(identity, postId) == <<"at:", "", identity, "app.bsky.feed.post", postId>>

\* The URI quote discovery is called with.
TargetUri == QuoteUri(DidA, quoKey)

\* postUri.match(/\/app\.bsky\.feed\.post\/(.+)$/): <<postId>>, or <<>> for
\* no match.
postIdMatch(postUri) ==
    IF Len(postUri) >= 5 /\ postUri[4] = "app.bsky.feed.post" /\ postUri[5] # <<>>
    THEN <<postUri[5]>>
    ELSE <<>>

\* The length the post id is cut to: substring(0, 12) in part_009 and
\* part_003, substring(0, 10) in bsky-quote.js.
QueryLength(implementation) == IF implementation = "bsky-quote.js" THEN 10 ELSE 12

searchQuery_Untruncated(postId, implementation) == postId

\* postId.substring(0, n)
searchQuery(postId, implementation) ==
    SubSeq(postId, 1, Min(Len(postId), QueryLength(implementation)))

isQuoteOf_SamePath(post, postUri) ==
    IF post.embedType = NoEmbed THEN FALSE
    ELSE IF post.embedType \in {EmbedRecord, EmbedRecordWithMedia}
    THEN post.recordUri = <<postUri>>
    ELSE FALSE

\* The filter of the search hits: embed.record?.uri of a record embed,
\* embed.record?.record?.uri of a recordWithMedia embed.
isQuoteOf(post, postUri) ==
    IF post.embedType = NoEmbed THEN FALSE
    ELSE IF post.embedType = EmbedRecord THEN post.recordUri = <<postUri>>
    ELSE IF post.embedType = EmbedRecordWithMedia THEN post.innerUri = <<postUri>>
    ELSE FALSE

filterQuotes(allPosts, postUri) ==
    SelectSeq(allPosts, LAMBDA post : isQuoteOf(post, postUri))

\* The posts a search may deliver: any embed, referencing the target, the
\* post of another author with the same key, or nothing, at either place.
HitUris == {<<>>, <<QuoteUri(DidA, quoKey)>>, <<QuoteUri(DidB, quoKey)>>}

Hits ==
    { [embedType |-> e, recordUri |-> <<>>, innerUri |-> <<>>] : e \in {NoEmbed, EmbedImages} }
    \cup
    { [embedType |-> e, recordUri |-> u, innerUri |-> i] :
        e \in {EmbedRecord, EmbedRecordWithMedia}, u \in HitUris, i \in HitUris }

HitLists == UNION { [1..n -> Hits] : n \in 0..MaxHits }

\* The posts getQuotes may deliver.
DirectLists ==
    { <<>>,
      <<[embedType |-> EmbedRecord, recordUri |-> <<TargetUri>>, innerUri |-> <<>>]>>,
      <<[embedType |-> EmbedRecordWithMedia, recordUri |-> <<>>, innerUri |-> <<TargetUri>>],
        [embedType |-> EmbedRecord, recordUri |-> <<TargetUri>>, innerUri |-> <<>>]>> }

\* A response: ok, not ok, or a transport error (fetch or json() throws).
ResponseKinds == {"ok", "notOk", "error"}

GetQuotesRequest == [endpoint |-> "app.bsky.feed.getQuotes", arg |-> TargetUri]

SearchRequest(q) == [endpoint |-> "app.bsky.feed.searchPosts", arg |-> q]

QuoteInit ==
    /\ ClsIdle
    /\ ColIdle
    /\ ThrIdle
    /\ AnoIdle
    /\ ExtIdle
    /\ quoImpl \in {"part_009", "part_003", "bsky-quote.js"}
    /\ quoKey \in { TextOf(n) : n \in 1..MaxKeyLen }
    /\ quoRequests = <<>>
    /\ quoResponses = <<>>
    /\ quoFailed = FALSE
    /\ quoHits = <<>>
    /\ quoResult = <<>>
    /\ quoPc = "start"

\* part_009: findQuotesUsingGetQuotesAPI up to its return or its call of
\* findQuotesViaSearch; findQuotesForPost of part_003 is the same code.
FindQuotesUsingGetQuotesAPI ==
    /\ quoPc = "start"
    /\ quoImpl \in {"part_009", "part_003"}
    /\ quoRequests' = Append(quoRequests, GetQuotesRequest)
    /\ \E kind \in ResponseKinds, posts \in DirectLists :
         /\ quoResponses' = Append(quoResponses, kind)
         /\ IF kind = "ok"
            THEN /\ quoResult' = posts
                 /\ quoPc' = "done"
                 /\ quoFailed' = FALSE
            ELSE /\ quoResult' = <<>>
                 /\ quoPc' = "search"
                 /\ quoFailed' = TRUE
    /\ UNCHANGED <<quoImpl, quoKey, quoHits>>
    /\ UNCHANGED <<clsVars, colVars, thrVars, anoVars, extVars>>

\* bsky-quote.js: findQuotesForPost with fetchDirectQuotes, up to its
\* return or its call of searchForQuotes
FetchDirectQuotes ==
    /\ quoPc = "start"
    /\ quoImpl = "bsky-quote.js"
    /\ quoRequests' = Append(quoRequests, GetQuotesRequest)
    /\ \E kind \in ResponseKinds, posts \in DirectLists :
         LET directQuotes == IF kind = "ok" THEN posts ELSE <<>>
         IN  /\ quoResponses' = Append(quoResponses, kind)
             /\ quoFailed' = (kind # "ok")
             /\ IF Len(directQuotes) > 0
                THEN /\ quoResult' = directQuotes
                     /\ quoPc' = "done"
                ELSE /\ quoResult' = <<>>
                     /\ quoPc' = "search"
    /\ UNCHANGED <<quoImpl, quoKey, quoHits>>
    /\ UNCHANGED <<clsVars, colVars, thrVars, anoVars, extVars>>

searchResult_StatusIgnored(kind, body, postUri) == filterQuotes(body, postUri)

\* What the search returns for a response of the given kind and body: the
\* filtered posts of an ok response, the empty list otherwise.
searchResult(kind, body, postUri) ==
    IF kind = "ok" THEN filterQuotes(body, postUri) ELSE <<>>

\* The search the modules make: no request without a post id; the body of
\* a response that is not ok, or whose fetch or json() throws, is not read.
SearchRoundTrip ==
    LET m == postIdMatch(TargetUri)
    IN  IF m = <<>>
        THEN /\ quoResult' = <<>>
             /\ UNCHANGED <<quoRequests, quoResponses, quoHits>>
        ELSE /\ quoRequests' = Append(quoRequests, SearchRequest(searchQuery(m[1], quoImpl)))
             /\ \E kind \in ResponseKinds, body \in HitLists :
                  /\ quoResponses' = Append(quoResponses, kind)
                  /\ quoHits' = IF kind = "ok" THEN body ELSE <<>>
                  /\ quoResult' = searchResult(kind, body, TargetUri)

\* part_009: findQuotesViaSearch; searchForQuotes of part_003
FindQuotesViaSearch ==
    /\ quoPc = "search"
    /\ quoImpl \in {"part_009", "part_003"}
    /\ SearchRoundTrip
    /\ quoPc' = "done"
    /\ UNCHANGED <<quoImpl, quoKey, quoFailed>>
    /\ UNCHANGED <<clsVars, colVars, thrVars, anoVars, extVars>>

\* bsky-quote.js: searchForQuotes
SearchForQuotes ==
    /\ quoPc = "search"
    /\ quoImpl = "bsky-quote.js"
    /\ SearchRoundTrip
    /\ quoPc' = "done"
    /\ UNCHANGED <<quoImpl, quoKey, quoFailed>>
    /\ UNCHANGED <<clsVars, colVars, thrVars, anoVars, extVars>>

QuoteNext ==
    \/ FindQuotesUsingGetQuotesAPI
    \/ FindQuotesViaSearch
    \/ FetchDirectQuotes
    \/ SearchForQuotes

QuoteSpec == QuoteInit /\ [][QuoteNext]_vars

\* The URI a search hit references as the post it quotes, <<>> for none.
ReferencedUri(post) ==
    IF post.embedType = EmbedRecord THEN post.recordUri
    ELSE IF post.embedType = EmbedRecordWithMedia THEN post.innerUri
    ELSE <<>>

\* C14: when the getQuotes request has failed, the next request is a
\* searchPosts request whose query is the record key cut to its first
\* characters, the result is the filtered hits of that search, and the
\* discovery ends without an error.
C14_FallbackToSearch ==
    (quoFailed /\ quoPc = "done") =>
        /\ Len(quoRequests) = 2
        /\ quoRequests[1].endpoint = "app.bsky.feed.getQuotes"
        /\ quoRequests[2].endpoint = "app.bsky.feed.searchPosts"
        /\ LET q == quoRequests[2].arg
           IN  /\ Len(q) = Min(Len(quoKey), QueryLength(quoImpl))
               /\ \A k \in 1..Len(q) : q[k] = quoKey[k]
        /\ quoResult = SelectSeq(quoHits, LAMBDA post : ReferencedUri(post) = <<TargetUri>>)

\* getQuotes failed, the search used a key cut short and found a quote.
C14_Witness ==
    /\ quoFailed
    /\ quoPc = "done"
    /\ Len(quoRequests) = 2
    /\ Len(quoRequests[2].arg) < Len(quoKey)
    /\ Len(quoResult) = 1
    /\ Len(quoHits) = 2

\* C15: the search fallback returns exactly the hits whose record or
\* recordWithMedia embed references the target URI, in their order: none
\* that references another post or nothing, and none dropped.
C15_ExactlyTheQuotes ==
    (quoPc = "done" /\ Len(quoRequests) = 2) =>
        /\ \A k \in 1..Len(quoResult) : ReferencedUri(quoResult[k]) = <<TargetUri>>
        /\ Len(quoResult) =
               Cardinality({k \in 1..Len(quoHits) : ReferencedUri(quoHits[k]) = <<TargetUri>>})
        /\ \E f \in [1..Len(quoResult) -> 1..Len(quoHits)] :
               /\ \A k \in 1..Len(quoResult) : quoHits[f[k]] = quoResult[k]
               /\ \A j, k \in 1..Len(quoResult) : j < k => f[j] < f[k]

\* A recordWithMedia hit that quotes the target is returned, a record hit
\* that quotes another post is not.
C15_Witness ==
    /\ quoPc = "done"
    /\ Len(quoRequests) = 2
    /\ Len(quoHits) = 2
    /\ quoHits[1].embedType = EmbedRecord
    /\ quoHits[1].recordUri = <<QuoteUri(DidB, quoKey)>>
    /\ quoHits[2].embedType = EmbedRecordWithMedia
    /\ quoResult = <<quoHits[2]>>

\* --------------------------------------------------------------------------
\* Claims about the starter-pack fan-out (Spec)
\* --------------------------------------------------------------------------

\* A step of the member loop that issued a request.
MemberRequestStep ==
    /\ impl = "processStarterPackFeed"
    /\ colPc = "loop"
    /\ requestCount' = requestCount + 1

\* C16: a member whose request fails adds no post and does not end the
\* operation with an error: the loop goes on to the remaining members, a
\* succeeding member adds its posts, and the result is what the succeeding
\* members added, cut to the limit.
C16_FailedMemberContributesNothing ==
    [][MemberRequestStep =>
          /\ colPc' # "threw"
          /\ ~lastResp'.ok => allData' = allData
          /\ lastResp'.ok => allData' = allData + lastResp'.n
          /\ (memberIdx' < members /\ allData' < limit) => colPc' = "loop"
          /\ colPc' = "returned" =>
                 result' = IF allData' <= limit THEN allData' ELSE limit]_vars

\* The first of three members has been fetched, the second has failed with
\* a body, and the loop is about to fetch the third.
C16_Witness ==
    /\ impl = "processStarterPackFeed"
    /\ colPc = "loop"
    /\ members = 3
    /\ memberIdx = 2
    /\ requestCount = 2
    /\ ~lastResp.ok
    /\ lastResp.n > 0
    /\ allData = postsPerUser(limit, members)

\* C17: the members are gone through one by one in list order, a request
\* asks for at most ceil(limit / memberCount) posts and at most what is
\* still missing, and none is issued once the limit has been collected.
C17_MemberRequests ==
    [][MemberRequestStep =>
          /\ memberIdx' = memberIdx + 1
          /\ memberIdx < members
          /\ lastReq'.limit >= 1
          /\ lastReq'.limit <= (limit + members - 1) \div members
          /\ lastReq'.limit <= limit - allData
          /\ allData < limit]_vars

\* The third member has been asked for less than its share, since less
\* was missing.
C17_Witness ==
    /\ impl = "processStarterPackFeed"
    /\ members = 3
    /\ memberIdx = 3
    /\ requestCount = 3
    /\ lastReq.limit < (limit + members - 1) \div members
    /\ lastReq.limit = limit - (allData - userPosts(lastResp))

\* The loop has stopped before the last member, the limit being reached.
C17_StoppedEarly ==
    /\ impl = "processStarterPackFeed"
    /\ colPc = "returned"
    /\ memberIdx < members
    /\ allData >= limit

\* --------------------------------------------------------------------------
\* Claims about the output builders (AnonSpec)
\* --------------------------------------------------------------------------

\* C26: in every output record hasMedia is true exactly for an images,
\* external or recordWithMedia embed, and false for a pure record embed or
\* none; the feed output agrees with hasMedia of bsky-core.js.
C26_HasMediaAgrees ==
    anoPc = "done" =>
        \A i \in 1..Len(anoOut) :
            anoItems[i].kind = "feedItem" \/ anoCall # "anonymizeFeedItems" =>
                LET post == anoItems[i].post
                IN  /\ anoOut[i].hasMedia
                           <=> post.embedType \in {EmbedImages, EmbedExternal, EmbedRecordWithMedia}
                    /\ anoOut[i].hasMedia = hasMedia(post)

\* C26 for the records of anonymizePost and anonymizePosts alone.
C26_HasMediaOfAnonymizePost ==
    (anoPc = "done" /\ anoCall # "anonymizeFeedItems") => C26_HasMediaAgrees

\* C27: the i-th record of the output for a custom feed, a list feed or a
\* starter pack, whose collected items are the posts themselves, carries the
\* text, creation time, counters and language of the i-th collected post.
C27_RecordCarriesItsPost ==
    (anoPc = "done" /\ anoCall = "anonymizeFeedItems") =>
        \A i \in 1..Len(anoOut) :
            anoItems[i].kind = "post" =>
                LET post == anoItems[i].post
                    out == anoOut[i]
                IN  /\ TruthyStr(post.text) => out.text = post.text
                    /\ TruthyNum(post.createdAt) => out.createdAt = post.createdAt[1]
                    /\ out.likeCount = OrZero(post.likeCount)
                    /\ out.replyCount = OrZero(post.replyCount)
                    /\ out.repostCount = OrZero(post.repostCount)
                    /\ (post.langs # <<>> /\ post.langs[1] # <<>> /\ TruthyStr(post.langs[1][1]))
                           => out.language = post.langs[1][1]

\* --------------------------------------------------------------------------
\* Claims about quote discovery (QuoteSpec), continued
\* --------------------------------------------------------------------------

\* C29: quote discovery ends by returning a list whatever the upstream
\* answers; when the getQuotes request and the search have both failed the
\* list is empty; and one discovery issues at most one search request.
C29_DoubleFailureGivesEmptyList ==
    /\ quoPc \in {"start", "search", "done"}
    /\ Cardinality({k \in 1..Len(quoRequests) :
                      quoRequests[k].endpoint = "app.bsky.feed.searchPosts"}) <= 1
    /\ (/\ quoPc = "done"
        /\ Len(quoResponses) = 2
        /\ quoResponses[1] # "ok"
        /\ quoResponses[2] # "ok") => quoResult = <<>>

\* getQuotes answered non-2xx, the search threw, the discovery is done.
C29_Witness ==
    /\ quoPc = "done"
    /\ quoImpl = "part_003"
    /\ quoResponses = <<"notOk", "error">>
    /\ Len(quoRequests) = 2
    /\ quoResult = <<>>

\* --------------------------------------------------------------------------
\* Claims about the collectors (Spec), continued
\* --------------------------------------------------------------------------

\* C24: when a request fails after earlier pages have been collected, the
\* collecting operation is not aborted: it ends by returning the items
\* collected so far.
C24_FailureKeepsCollected ==
    (/\ requestCount >= 2
     /\ ~lastResp.ok
     /\ allData > 0
     /\ colPc # "loop") =>
        /\ colPc = "returned"
        /\ result = IF allData <= limit THEN allData ELSE limit

\* --------------------------------------------------------------------------
\* bsky-core.js: buildPostUri and resolveHandleToDid. A handle, a DID and a
\* post id are the sequences of their characters, so that startsWith is
\* computed.
\* --------------------------------------------------------------------------

CoreIdle == ClsIdle /\ ColIdle /\ ThrIdle /\ AnoIdle /\ QuoIdle

\* 'did:'
DidPrefix == <<"d", "i", "d", ":">>

startsWith_Never(text, prefix) == FALSE

\* String.prototype.startsWith
startsWith(text, prefix) ==
    /\ Len(text) >= Len(prefix)
    /\ \A k \in 1..Len(prefix) : text[k] = prefix[k]

\* The handles and DIDs of the profile part of a post URL.
Handles ==
    { <<"a", ".", "b", "s", "k", "y">>,
      <<"d", "i", "d">>,
      <<"d", "i", "d", ".", "i", "o">>,
      <<"D", "I", "D", ":", "x">>,
      <<"a", "d", "i", "d", ":">>,
      <<"d", "i", "d", ":">>,
      <<"d", "i", "d", ":", "p", "l", "c", ":", "a">>,
      <<"d", "i", "d", ":", "w", "e", "b", ":", "b">> }

\* The DIDs resolveHandle answers with.
ResolvedDids ==
    { <<"d", "i", "d", ":", "p", "l", "c", ":", "r">>,
      <<"d", "i", "d", ":", "w", "e", "b", ":", "s">> }

UriInit ==
    /\ CoreIdle
    /\ uriHandle \in Handles
    /\ uriPostId \in { TextOf(n) : n \in 1..MaxKeyLen }
    /\ uriResolveDid \in BOOLEAN
    /\ uriRequests = <<>>
    /\ uriResponse = "none"
    /\ uriResult = <<>>
    /\ uriPc = "start"
    /\ AuthIdle
    /\ OpIdle
    /\ FltIdle

\* bsky-core.js: buildPostUri(handle, postId, resolveDid) with the request
\* of resolveHandleToDid, which rethrows every failure to buildPostUri's
\* catch.
BuildPostUri ==
    /\ uriPc = "start"
    /\ IF uriResolveDid /\ ~startsWith(uriHandle, DidPrefix)
       THEN /\ uriRequests' = Append(uriRequests, uriHandle)
            /\ \E kind \in ResponseKinds, did \in ResolvedDids :
                 /\ uriResponse' = kind
                 /\ uriResult' = IF kind = "ok"
                                 THEN <<QuoteUri(did, uriPostId)>>
                                 ELSE <<QuoteUri(uriHandle, uriPostId)>>
       ELSE /\ uriResult' = <<QuoteUri(uriHandle, uriPostId)>>
            /\ UNCHANGED <<uriRequests, uriResponse>>
    /\ uriPc' = "done"
    /\ UNCHANGED <<uriHandle, uriPostId, uriResolveDid>>
    /\ UNCHANGED <<coreVars, authVars, opVars, fltVars>>

UriNext == BuildPostUri

UriSpec == UriInit /\ [][UriNext]_vars

\* C21: buildPostUri always returns a URI: with the resolved DID when the
\* resolution succeeded, with the handle when it failed, and without any
\* resolution request when the handle starts with 'did:'.
C21_BuildPostUri ==
    /\ uriPc \in {"idle", "start", "done"}
    /\ (uriPc = "done" /\ uriResolveDid) =>
        /\ Len(uriResult) = 1
        /\ uriResult[1][1] = "at:" /\ uriResult[1][2] = ""
        /\ uriResult[1][4] = "app.bsky.feed.post"
        /\ uriResult[1][5] = uriPostId
        /\ uriResponse = "ok" => uriResult[1][3] \in ResolvedDids
        /\ uriResponse \in {"notOk", "error"} => uriResult[1][3] = uriHandle
        /\ (Len(uriHandle) >= 4 /\ SubSeq(uriHandle, 1, 4) = <<"d", "i", "d", ":">>)
               => (uriRequests = <<>> /\ uriResult[1][3] = uriHandle)
        /\ uriRequests = <<>> <=> uriResponse = "none"

\* The resolution of a handle has failed and the URI has the handle.
C21_Witness ==
    /\ uriPc = "done"
    /\ uriResolveDid
    /\ uriResponse = "error"
    /\ uriRequests = <<uriHandle>>
    /\ uriResult = <<QuoteUri(uriHandle, uriPostId)>>

\* A DID has been given and no request was made.
C21_WitnessDid ==
    /\ uriPc = "done"
    /\ uriResolveDid
    /\ uriHandle = <<"d", "i", "d", ":", "p", "l", "c", ":", "a">>
    /\ uriRequests = <<>>

\* --------------------------------------------------------------------------
\* bsky-core.js: the session. authenticateUser suspends at its fetch, and
\* logout, or another authenticateUser, may run before its response is
\* handled. A call is "idle" before it is made, "inflight" while it awaits
\* its response, "stale" when a logout has run since it was made, "done"
\* after it has returned.
\* --------------------------------------------------------------------------

MaxCalls == 3

\* isAuthenticated(): authToken !== null
isAuthenticated == authToken # <<>>

AuthInit ==
    /\ CoreIdle
    /\ UriIdle
    /\ OpIdle
    /\ FltIdle
    /\ authToken = <<>>
    /\ userProfile = <<>>
    /\ authCalls = [c \in 1..MaxCalls |-> "idle"]
    /\ loggedOut = FALSE

\* authenticateUser(handle, password) up to its await of fetch
AuthenticateUserCalled(c) ==
    /\ authCalls[c] = "idle"
    /\ authCalls' = [authCalls EXCEPT ![c] = "inflight"]
    /\ UNCHANGED <<authToken, userProfile, loggedOut>>
    /\ UNCHANGED <<coreVars, uriVars, opVars, fltVars>>

\* authenticateUser from the response to its return: an ok response sets
\* authToken and userProfile, every failure is caught and changes nothing.
AuthenticateUserResumed(c) ==
    /\ authCalls[c] \in {"inflight", "stale"}
    /\ authCalls' = [authCalls EXCEPT ![c] = "done"]
    /\ \E kind \in ResponseKinds :
         IF kind = "ok"
         THEN /\ authToken' = <<c>>
              /\ userProfile' = <<c>>
              /\ loggedOut' = IF authCalls[c] = "inflight" THEN FALSE ELSE loggedOut
         ELSE UNCHANGED <<authToken, userProfile, loggedOut>>
    /\ UNCHANGED <<coreVars, uriVars, opVars, fltVars>>

\* logout()
Logout ==
    /\ authToken' = <<>>
    /\ userProfile' = <<>>
    /\ loggedOut' = TRUE
    /\ authCalls' = [c \in 1..MaxCalls |->
                        IF authCalls[c] = "inflight" THEN "stale" ELSE authCalls[c]]
    /\ UNCHANGED <<coreVars, uriVars, opVars, fltVars>>

AuthNext ==
    \/ \E c \in 1..MaxCalls : AuthenticateUserCalled(c)
    \/ \E c \in 1..MaxCalls : AuthenticateUserResumed(c)
    \/ Logout

AuthSpec == AuthInit /\ [][AuthNext]_vars

\* C30: once logout() has returned, the session stays unauthenticated, token
\* and profile both null, until an authenticateUser call made after the
\* logout succeeds; a call that was in flight at the logout does not
\* authenticate the session.
C30_LogoutIsFinal ==
    loggedOut => (~isAuthenticated /\ authToken = <<>> /\ userProfile = <<>>)

\* --------------------------------------------------------------------------
\* The form handlers: handleFeedSubmission (bsky-feeds.js), handleSearch
\* (bsky-search.js), processReplies and processQuotes (part_009), and
\* handleFormSubmission (core-html.js) with the processors of part_008. A
\* handler runs without interruption up to its first await of the network,
\* and from a response to its next await or its end; the output pane, the
\* error banner and the buttons belong to the page.
\* --------------------------------------------------------------------------

MaxOps == 2
MaxOpRequests == 2

Pages == {"feed", "search", "thread", "form"}

ToolsOf(page) ==
    IF page = "feed" THEN {"handleFeedSubmission"}
    ELSE IF page = "search" THEN {"handleSearch"}
    ELSE IF page = "thread" THEN {"processReplies", "processQuotes"}
    ELSE {"handleFormSubmission"}

\* The button showLoading and hideLoading are called with.
ButtonOf(tool) ==
    IF tool = "handleFeedSubmission" THEN "process-feed"
    ELSE IF tool = "handleSearch" THEN "process-search"
    ELSE IF tool = "processQuotes" THEN "process-quotes"
    ELSE "process-replies"

\* What a handler reads from the page: the trimmed URL field (empty, not of
\* the expected format, a short starter-pack URL, or well formed), the
\* checked content type, the session, and the trimmed query.
NoInput ==
    [url |-> "good", contentType |-> "profile", authenticated |-> TRUE, query |-> "cats"]

InputsOf(tool) ==
    IF tool = "handleFeedSubmission"
    THEN { [NoInput EXCEPT !.url = u, !.contentType = c] :
             u \in {"", "garbage", "short", "good"},
             c \in {Undefined, "profile", "feed", "list", "starterpack"} }
    ELSE IF tool = "handleSearch"
    THEN { [NoInput EXCEPT !.authenticated = a, !.query = q] :
             a \in BOOLEAN, q \in {"", "cats"} }
    ELSE { [NoInput EXCEPT !.url = u] : u \in {"", "garbage", "good"} }

\* The checks a handler makes before showLoading: <<message>> of the error
\* it shows, <<>> when it goes on.
precheck(tool, in) ==
    IF tool = "handleFeedSubmission"
    THEN IF in.url = "" THEN <<"Please enter a URL">>
         ELSE IF in.contentType = Undefined THEN <<"Please select a content type">>
         ELSE <<>>
    ELSE IF tool = "handleSearch"
    THEN IF ~in.authenticated THEN <<"Please authenticate first">>
         ELSE IF in.query = "" THEN <<"Please enter a search query">>
         ELSE <<>>
    ELSE IF tool \in {"processReplies", "processQuotes"}
    THEN IF in.url = "" THEN <<"Please enter a Bluesky post URL">> ELSE <<>>
    ELSE <<>>

urlError_Skipped(tool, in) == <<>>

\* The error thrown inside try before the first request: the URL is not of
\* the format the handler expects.
urlError(tool, in) ==
    IF tool = "handleSearch" THEN <<>>
    ELSE IF tool = "handleFeedSubmission"
    THEN IF in.url = "short" /\ in.contentType = "starterpack"
         THEN <<"Short starter pack URLs are not supported. Please use the full URL format.">>
         ELSE IF in.url # "good" THEN <<"Invalid URL format">>
         ELSE <<>>
    ELSE IF in.url # "good" THEN <<"Invalid Bluesky post URL format">>
    ELSE <<>>

rendersResult_Always(outcome) == TRUE

\* displayOutput is the last statement of try: reached when nothing threw.
rendersResult(outcome) == outcome = "complete"

IdleOp ==
    [tool |-> "none", auto |-> FALSE, in |-> NoInput, pc |-> "idle", attempts |-> 0,
     requests |-> 0, collected |-> 0, rendered |-> 0, errors |-> 0]

InFlight == {o \in 1..MaxOps : ops[o].pc = "running"}

OpInit ==
    /\ CoreIdle
    /\ UriIdle
    /\ AuthIdle
    /\ FltIdle
    /\ opPage \in Pages
    /\ ops = [o \in 1..MaxOps |-> IdleOp]
    /\ paneOutput = <<>>
    /\ paneError = [shown |-> FALSE, owner |-> 0]
    /\ disabledButtons = {}
    /\ overlapped = FALSE

\* A click, a submit, or the auto-submit of the feed page (which calls the
\* handler itself, whatever the button's state): the handler up to its
\* return or its first request. hideError, the checks, showLoading, and for
\* a URL of the wrong format the throw, showError and hideLoading.
StartOperation(o) ==
    /\ ops[o].pc = "idle"
    /\ \E tool \in ToolsOf(opPage), auto \in BOOLEAN :
         /\ auto => (tool = "handleFeedSubmission" /\ \A x \in 1..MaxOps : ~ops[x].auto)
         /\ auto \/ ButtonOf(tool) \notin disabledButtons
         /\ \E in \in InputsOf(tool) :
              LET started == [ops[o] EXCEPT !.tool = tool, !.auto = auto, !.in = in,
                                             !.attempts = @ + 1]
                  pre == precheck(tool, in)
                  thrown == urlError(tool, in)
              IN  IF pre # <<>>
                  THEN /\ ops' = [ops EXCEPT ![o] = [started EXCEPT !.pc = "ended", !.errors = @ + 1]]
                       /\ paneError' = [shown |-> TRUE, owner |-> o]
                       /\ UNCHANGED <<disabledButtons, overlapped>>
                  ELSE IF thrown # <<>>
                  THEN /\ ops' = [ops EXCEPT ![o] = [started EXCEPT !.pc = "ended", !.errors = @ + 1]]
                       /\ paneError' = [shown |-> TRUE, owner |-> o]
                       /\ disabledButtons' = disabledButtons \ {ButtonOf(tool)}
                       /\ UNCHANGED overlapped
                  ELSE /\ ops' = [ops EXCEPT ![o] = [started EXCEPT !.pc = "running"]]
                       /\ paneError' = [shown |-> FALSE, owner |-> 0]
                       /\ disabledButtons' = disabledButtons \cup {ButtonOf(tool)}
                       /\ overlapped' = (overlapped \/ InFlight # {})
    /\ UNCHANGED <<opPage, paneOutput>>
    /\ UNCHANGED <<coreVars, uriVars, authVars, fltVars>>

\* A request of the operation and the handler from its response on: more
\* to fetch, the result complete (displayOutput), or a failure that the
\* handler's catch shows (showError); finally hideLoading.
OperationResponse(o) ==
    /\ ops[o].pc = "running"
    /\ ops[o].requests < MaxOpRequests
    /\ \E outcome \in {"more", "complete", "fail"} :
         LET answered == [ops[o] EXCEPT !.requests = @ + 1,
                                         !.collected = IF outcome = "fail" THEN @ ELSE @ + 1]
         IN  IF outcome = "more"
             THEN /\ answered.requests < MaxOpRequests
                  /\ ops' = [ops EXCEPT ![o] = answered]
                  /\ UNCHANGED <<paneOutput, paneError, disabledButtons>>
             ELSE /\ ops' = [ops EXCEPT ![o] =
                               [answered EXCEPT !.pc = "ended",
                                   !.rendered = IF rendersResult(outcome) THEN @ + 1 ELSE @,
                                   !.errors = IF outcome = "fail" THEN @ + 1 ELSE @]]
                  /\ paneOutput' = IF rendersResult(outcome)
                                   THEN <<[owner |-> o, complete |-> outcome = "complete"]>>
                                   ELSE paneOutput
                  /\ paneError' = IF outcome = "fail"
                                  THEN [shown |-> TRUE, owner |-> o]
                                  ELSE paneError
                  /\ disabledButtons' = disabledButtons \ {ButtonOf(ops[o].tool)}
    /\ UNCHANGED <<opPage, overlapped>>
    /\ UNCHANGED <<coreVars, uriVars, authVars, fltVars>>

OpNext ==
    \/ \E o \in 1..MaxOps : StartOperation(o)
    \/ \E o \in 1..MaxOps : OperationResponse(o)

OpSpec == OpInit /\ [][OpNext]_vars

\* The inputs the claim names: an empty URL or query, no content type, no
\* session, a URL that is not of the expected format.
InvalidInput(op) ==
    IF op.tool = "handleSearch" THEN ~op.in.authenticated \/ op.in.query = ""
    ELSE IF op.tool = "handleFeedSubmission"
    THEN op.in.url # "good" \/ op.in.contentType = Undefined
    ELSE op.in.url # "good"

\* C22: an operation with such an input shows an error, issues no request
\* and is run once.
C22_ValidationBeforeNetwork ==
    \A o \in 1..Len(ops) :
        (ops[o].pc # "idle" /\ InvalidInput(ops[o])) =>
            /\ ops[o].pc = "ended"
            /\ ops[o].errors = 1
            /\ ops[o].requests = 0
            /\ ops[o].rendered = 0
            /\ ops[o].attempts = 1

\* A feed submission with a URL of the wrong format has ended with its
\* error on display.
C22_Witness ==
    /\ opPage = "feed"
    /\ ops[1].pc = "ended"
    /\ ops[1].in.url = "garbage"
    /\ ops[1].in.contentType = "list"
    /\ ops[1].requests = 0
    /\ paneError = [shown |-> TRUE, owner |-> 1]

\* C23: an operation that passed validation ends either with its complete
\* result rendered once and no error shown by it, or with an error shown
\* and nothing rendered by it; what is rendered is never a partial result.
C23_ResultOrError ==
    /\ \A o \in 1..Len(ops) :
         (ops[o].pc = "ended" /\ ~InvalidInput(ops[o])) =>
             \/ ops[o].rendered = 1 /\ ops[o].errors = 0
             \/ ops[o].rendered = 0 /\ ops[o].errors = 1
    /\ paneOutput # <<>> => paneOutput[1].complete

\* An operation has failed at its second request, after a first page, and
\* has rendered nothing.
C23_Witness ==
    /\ ops[1].pc = "ended"
    /\ ops[1].requests = 2
    /\ ops[1].collected = 1
    /\ ops[1].errors = 1
    /\ ops[1].rendered = 0
    /\ paneOutput = <<>>
    /\ paneError = [shown |-> TRUE, owner |-> 1]

\* C25: when two operations have been in flight at the same time, the page
\* never shows the error of one of them together with the result of the
\* other.
C25_NoMixedDisplay ==
    overlapped =>
        ~(/\ paneError.shown
          /\ paneOutput # <<>>
          /\ paneOutput[1].owner # paneError.owner)

\* --------------------------------------------------------------------------
\* The filtering collectors, item by item: fetchBskyPaginatedDataWithFiltering
\* (part_001) and the loop of processProfileFeed (bsky-feeds.js).
\* --------------------------------------------------------------------------

MaxFltLimit == 2
MaxPageLen == 2
MaxFltRequests == 3

FltItems == {OriginalItem(1), OriginalItem(2), RepostItem}

FltFilterSettings ==
    { [includePosts |-> TRUE, includeReposts |-> FALSE, includeQuotes |-> FALSE],
      [includePosts |-> FALSE, includeReposts |-> TRUE, includeQuotes |-> FALSE],
      [includePosts |-> TRUE, includeReposts |-> TRUE, includeQuotes |-> TRUE] }

\* slice(0, lim) of a list.
SliceSeq(list, lim) == SubSeq(list, 1, Min(Len(list), lim))

pushMatching_Unfiltered(all, items, lim, f) == all \o items

\* for (const item of items) { if (allData.length >= limit) break;
\*                             if (filter(item)) allData.push(item); }
RECURSIVE pushMatching(_, _, _, _)
pushMatching(all, items, lim, f) ==
    IF items = <<>> \/ Len(all) >= lim THEN all
    ELSE pushMatching(IF filterKeeps(Head(items), f) THEN Append(all, Head(items)) ELSE all,
                      Tail(items), lim, f)

FltInit ==
    /\ CoreIdle
    /\ UriIdle
    /\ AuthIdle
    /\ OpIdle
    /\ fltImpl \in {"fetchBskyPaginatedDataWithFiltering", "processProfileFeed"}
    /\ fltLimit \in 1..MaxFltLimit
    /\ fltFilters \in FltFilterSettings
    /\ fltFetched = <<>>
    /\ fltAllData = <<>>
    /\ fltRequestCount = 0
    /\ fltResult = <<>>
    /\ fltPc = "loop"

\* One pass of the while loop of fetchBskyPaginatedDataWithFiltering, with
\* maxRequests = MaxFltRequests.
FetchFilteredPage ==
    /\ fltImpl = "fetchBskyPaginatedDataWithFiltering"
    /\ fltPc = "loop"
    /\ fltRequestCount' = fltRequestCount + 1
    /\ \E kind \in {"ok", "fail"}, items \in SeqsUpTo(FltItems, MaxPageLen), hasCursor \in BOOLEAN :
         IF kind = "fail"
         THEN /\ fltPc' = "threw"
              /\ UNCHANGED <<fltFetched, fltAllData, fltResult>>
         ELSE IF items = <<>>
         THEN /\ fltPc' = "returned"
              /\ fltResult' = SliceSeq(fltAllData, fltLimit)
              /\ UNCHANGED <<fltFetched, fltAllData>>
         ELSE LET all == pushMatching(fltAllData, items, fltLimit, fltFilters)
                  goOn == /\ ~(Len(all) >= fltLimit \/ ~hasCursor)
                          /\ Len(all) < fltLimit
                          /\ fltRequestCount' < MaxFltRequests
              IN  /\ fltFetched' = fltFetched \o items
                  /\ fltAllData' = all
                  /\ fltPc' = IF goOn THEN "loop" ELSE "returned"
                  /\ fltResult' = IF goOn THEN fltResult ELSE SliceSeq(all, fltLimit)
    /\ UNCHANGED <<fltImpl, fltLimit, fltFilters>>
    /\ UNCHANGED <<coreVars, uriVars, authVars, opVars>>

\* One pass of the while loop of processProfileFeed.
FetchProfilePage ==
    /\ fltImpl = "processProfileFeed"
    /\ fltPc = "loop"
    /\ fltRequestCount < MaxFltRequests
    /\ fltRequestCount' = fltRequestCount + 1
    /\ \E kind \in {"ok", "fail"}, items \in SeqsUpTo(FltItems, MaxPageLen), hasCursor \in BOOLEAN :
         IF kind = "fail"
         THEN /\ fltPc' = "threw"
              /\ UNCHANGED <<fltFetched, fltAllData, fltResult>>
         ELSE IF items = <<>>
         THEN /\ fltPc' = "returned"
              /\ fltResult' = SliceSeq(fltAllData, fltLimit)
              /\ UNCHANGED <<fltFetched, fltAllData>>
         ELSE LET all == fltAllData \o filterFeedItemsByType(items, fltFilters)
                  goOn == hasCursor /\ ~(Len(all) >= fltLimit)
              IN  /\ fltFetched' = fltFetched \o items
                  /\ fltAllData' = all
                  /\ fltPc' = IF goOn THEN "loop" ELSE "returned"
                  /\ fltResult' = IF goOn THEN fltResult ELSE SliceSeq(all, fltLimit)
    /\ UNCHANGED <<fltImpl, fltLimit, fltFilters>>
    /\ UNCHANGED <<coreVars, uriVars, authVars, opVars>>

FltNext ==
    \/ FetchFilteredPage
    \/ FetchProfilePage

FltSpec == FltInit /\ [][FltNext]_vars

\* The items of a list that satisfy the predicate, in the list's order.
MatchingOf(list, f) ==
    LET Wanted(item) ==
            \/ item.reason = ReasonRepost /\ f.includeReposts
            \/ /\ item.reason # ReasonRepost
               /\ item.post.embedType \in {EmbedRecord, EmbedRecordWithMedia}
               /\ f.includeQuotes
            \/ /\ item.reason # ReasonRepost
               /\ item.post.embedType \notin {EmbedRecord, EmbedRecordWithMedia}
               /\ ~(item.post.hasReply /\ item.post.parentURI # PostUriOf(item.post.authorDID))
               /\ f.includePosts
    IN  SelectSeq(list, Wanted)

C28_WitnessProfile ==
    /\ fltImpl = "processProfileFeed"
    /\ fltPc = "returned"
    /\ fltLimit = 2
    /\ fltRequestCount = 3
    /\ fltFetched = <<RepostItem, OriginalItem(2), RepostItem, OriginalItem(1), OriginalItem(2)>>
    /\ fltResult = <<OriginalItem(2), OriginalItem(1)>>

=============================================================================
